---- MODULE Spec2Model ----
(***************************************************************************)
(* A model of the card/deck library (deck.py) and of the deck-statistics   *)
(* derivation (data/parse.py) of the Decked Out analysis repository.       *)
(*                                                                         *)
(* Text is modelled as a sequence of one-character strings, so that the    *)
(* regular expressions of Deck.from_str are computed character by          *)
(* character.  Python's None is the empty tuple and a present optional     *)
(* value v is <<v>>.                                                       *)
(***************************************************************************)
EXTENDS Integers, Sequences, FiniteSets, TLC

(***************************************************************************)
(* Characters and the str methods the code uses.                           *)
(***************************************************************************)
None == <<>>
Some(v) == <<v>>

\* body applied to a value that is computed once
Bind(value, body(_)) == CHOOSE result \in {body(v) : v \in {value}} : TRUE

UpperChars == {"A", "B", "C", "D", "E", "F", "G", "H", "I", "J", "K", "L", "M", "N", "O", "P", "Q", "R", "S", "T", "U", "V", "W", "X", "Y", "Z"}
LowerChars == {"a", "b", "c", "d", "e", "f", "g", "h", "i", "j", "k", "l", "m", "n", "o", "p", "q", "r", "s", "t", "u", "v", "w", "x", "y", "z"}
DigitChars == {"0", "1", "2", "3", "4", "5", "6", "7", "8", "9"}
\* the regular-expression class \w
WordChars == UpperChars \cup LowerChars \cup DigitChars \cup {"_"}
\* str.isspace for the characters of the model
SpaceChars == {" "}

UpperOf == [a |-> "A", b |-> "B", c |-> "C", d |-> "D", e |-> "E", f |-> "F", g |-> "G", h |-> "H", i |-> "I", j |-> "J", k |-> "K", l |-> "L", m |-> "M", n |-> "N", o |-> "O", p |-> "P", q |-> "Q", r |-> "R", s |-> "S", t |-> "T", u |-> "U", v |-> "V", w |-> "W", x |-> "X", y |-> "Y", z |-> "Z"]
DigitVal == ("0" :> 0) @@ ("1" :> 1) @@ ("2" :> 2) @@ ("3" :> 3) @@ ("4" :> 4) @@ ("5" :> 5) @@ ("6" :> 6) @@ ("7" :> 7) @@ ("8" :> 8) @@ ("9" :> 9)

\* str.upper()
upper(s) == [i \in 1..Len(s) |-> IF s[i] \in DOMAIN UpperOf THEN UpperOf[s[i]] ELSE s[i]]

\* s[:n]
Prefix(s, n) == SubSeq(s, 1, IF n < Len(s) THEN n ELSE Len(s))
\* s[n:] for a 0-based n
Suffix(s, n) == SubSeq(s, n + 1, Len(s))

\* str.strip()
RECURSIVE lstrip(_)
lstrip(s) == IF s # <<>> /\ Head(s) \in SpaceChars THEN lstrip(Tail(s)) ELSE s
RECURSIVE rstrip(_)
rstrip(s) ==
  IF s # <<>> /\ s[Len(s)] \in SpaceChars THEN rstrip(SubSeq(s, 1, Len(s) - 1)) ELSE s
strip(s) == rstrip(lstrip(s))

\* str.split(): the maximal runs of non-space characters
RECURSIVE split_ws(_, _)
split_ws(s, word) ==
  IF s = <<>> THEN (IF word = <<>> THEN <<>> ELSE <<word>>)
  ELSE IF Head(s) \in SpaceChars
       THEN (IF word = <<>> THEN <<>> ELSE <<word>>) \o split_ws(Tail(s), <<>>)
       ELSE split_ws(Tail(s), Append(word, Head(s)))
split(s) == split_ws(s, <<>>)

\* needle in s, for two strings
Contains(s, needle) ==
  \E i \in 1..(Len(s) - Len(needle) + 1) : SubSeq(s, i, i + Len(needle) - 1) = needle

\* int(s) for a string of digits with an optional sign
RECURSIVE DigitsValue(_, _)
DigitsValue(s, acc) ==
  IF s = <<>> THEN acc ELSE DigitsValue(Tail(s), 10 * acc + DigitVal[Head(s)])
int(s) ==
  IF Head(s) = "-" THEN 0 - DigitsValue(Tail(s), 0)
  ELSE IF Head(s) = "+" THEN DigitsValue(Tail(s), 0)
  ELSE DigitsValue(s, 0)

(***************************************************************************)
(* Cards and their registration (class Card).                              *)
(***************************************************************************)
COMMON == 1
UNCOMMON == 2
RARE == 3
LEGENDARY == 4
ETHEREAL == 5

CROWN_PRICE_POWER_FACTOR == 5
EMBER_PRICE_POWER_FACTOR == 1

\* the arguments of Card(...), with the defaults of the dataclass fields
NewCard(name, level, price, limit, power, permanent, short_name) ==
  [cls |-> "Card", name |-> name, level |-> level, price |-> price, limit |-> limit,
   crowns_purchase |-> FALSE, power |-> power, permanent |-> permanent,
   short_name |-> short_name]

\* EtherealCard(...): crowns_purchase defaults to True
NewEtherealCard(name, level, price, limit, power, permanent, short_name) ==
  [cls |-> "EtherealCard", name |-> name, level |-> level, price |-> price,
   limit |-> limit, crowns_purchase |-> TRUE, power |-> power,
   permanent |-> permanent, short_name |-> short_name]

LEGENDARY_POWER == 999
LEGENDARY_LIMIT == 1

\* LegendaryCard(...): no price, limit 1, power 999
NewLegendaryCard(name, permanent) ==
  [cls |-> "LegendaryCard", name |-> name, level |-> LEGENDARY, price |-> None,
   limit |-> Some(LEGENDARY_LIMIT), crowns_purchase |-> FALSE,
   power |-> Some(LEGENDARY_POWER), permanent |-> permanent, short_name |-> None]

\* short names the code writes out
SNE == <<"S","N","E">>
STA == <<"S","T","A">>
TRH == <<"T","R","H">>
EMS == <<"E","M","S">>
EVA == <<"E","V","A">>
LAS == <<"L","A","S">>

\* the class attributes Card.card_lookup and Card.name_map before any registration
EmptyRegistry ==
  [card_lookup |-> <<>>,
   name_map |-> (<<"L","O","O","T"," ","&"," ","S","C","O","O","T">> :> LAS)
                @@ (<<"L","O","O","T"," ","N","'"," ","S","C","O","O","T">> :> LAS)]

\* the power a card gets when none is given
InferPower(c) ==
  IF c.crowns_purchase THEN c.price[1] * CROWN_PRICE_POWER_FACTOR
  ELSE c.price[1] * EMBER_PRICE_POWER_FACTOR

\* the short name generated from the words of a card's name
ShortNameOf(name) ==
  LET words == split(name)
      num_words == Len(words)
      generated ==
        IF num_words = 1 THEN Prefix(words[1], 3)
        ELSE IF num_words = 2 THEN Prefix(words[1], 2) \o Prefix(words[2], 1)
        ELSE Prefix(words[1], 1) \o Prefix(words[2], 1) \o Prefix(words[num_words], 1)
  IN  upper(generated)

\* a registration that enters the card under its short name without looking
\* the short name up first
Card_post_init_overwriting(reg, args) ==
  LET name == strip(args.name)
  IN
  IF args.power = None /\ args.price = None
  THEN [reg |-> reg, exc |-> "ValueError"]
  ELSE
    LET power == IF args.power = None THEN InferPower(args) ELSE args.power[1]
        words == split(name)
    IN
    IF args.short_name = None /\ words = <<>>
    THEN [reg |-> reg, exc |-> "IndexError"]
    ELSE
      LET short_name ==
            IF args.short_name = None THEN ShortNameOf(name) ELSE args.short_name[1]
          card == [args EXCEPT !.name = name, !.power = power, !.short_name = short_name]
          full == upper(name)
      IN
      IF Len(short_name) # 3
      THEN [reg |-> reg, exc |-> "ValueError"]
      ELSE
        LET entered == [reg EXCEPT !.card_lookup = (short_name :> card) @@ @]
        IN
        IF full \in DOMAIN entered.name_map
        THEN [reg |-> entered, exc |-> "ValueError"]
        ELSE [reg |-> [entered EXCEPT
                         !.name_map = (short_name :> short_name) @@ (full :> short_name) @@ @],
              exc |-> "none"]

\* Card.__post_init__ on the registry reg: the registry afterwards and the
\* error raised, if any.  The card is entered in card_lookup before its name is
\* looked up in name_map.
Card_post_init(reg, args) ==
  LET name == strip(args.name)
  IN
  IF args.power = None /\ args.price = None
  THEN [reg |-> reg, exc |-> "ValueError"]
  ELSE
    LET power == IF args.power = None THEN InferPower(args) ELSE args.power[1]
        words == split(name)
    IN
    IF args.short_name = None /\ words = <<>>
    THEN [reg |-> reg, exc |-> "IndexError"]
    ELSE
      LET short_name ==
            IF args.short_name = None THEN ShortNameOf(name) ELSE args.short_name[1]
          card == [args EXCEPT !.name = name, !.power = power, !.short_name = short_name]
          full == upper(name)
      IN
      IF Len(short_name) # 3
      THEN [reg |-> reg, exc |-> "ValueError"]
      ELSE IF short_name \in DOMAIN reg.card_lookup
      THEN [reg |-> reg, exc |-> "ValueError"]
      ELSE
        LET entered == [reg EXCEPT !.card_lookup = (short_name :> card) @@ @]
        IN
        IF full \in DOMAIN entered.name_map
        THEN [reg |-> entered, exc |-> "ValueError"]
        ELSE [reg |-> [entered EXCEPT
                         !.name_map = (short_name :> short_name) @@ (full :> short_name) @@ @],
              exc |-> "none"]

\* the registrations of a list of card definitions, in order; a registration
\* that raises ends the import of the module
RECURSIVE RegisterAll(_, _)
RegisterAll(reg, defs) ==
  IF defs = <<>> THEN reg
  ELSE Bind(Card_post_init(reg, Head(defs)),
            LAMBDA done : IF done.exc # "none" THEN done.reg
                          ELSE RegisterAll(done.reg, Tail(defs)))

CommonDefs ==
  << NewCard(<<"S","n","e","a","k">>,
       COMMON, Some(7), Some(5), None, FALSE, None),
     NewCard(<<"S","t","a","b","i","l","i","t","y">>,
       COMMON, Some(8), Some(5), None, FALSE, None),
     NewCard(<<"T","r","e","a","s","u","r","e"," ","H","u","n","t","e","r">>,
       COMMON, Some(9), Some(5), None, FALSE, None),
     NewCard(<<"E","m","b","e","r"," ","S","e","e","k","e","r">>,
       COMMON, Some(10), Some(5), None, FALSE, None) >>

CommonRegistry == RegisterAll(EmptyRegistry, CommonDefs)

moc_power ==
  6 + CommonRegistry.card_lookup[SNE].power + CommonRegistry.card_lookup[STA].power
    + CommonRegistry.card_lookup[TRH].power + CommonRegistry.card_lookup[EMS].power

MomentOfClarityDef ==
  << NewEtherealCard(<<"M","o","m","e","n","t"," ","o","f"," ","C","l","a","r","i","t","y">>,
       COMMON, Some(6), None, Some(moc_power), FALSE, None) >>

UncommonDefs ==
  << NewCard(<<"E","v","a","s","i","o","n">>,
       UNCOMMON, Some(16), Some(3), None, FALSE, None),
     NewCard(<<"T","r","e","a","d"," ","L","i","g","h","t","l","y">>,
       UNCOMMON, Some(18), Some(3), None, FALSE, None),
     NewCard(<<"F","r","o","s","t"," ","F","o","c","u","s">>,
       UNCOMMON, Some(20), Some(3), None, FALSE, None),
     NewCard(<<"L","o","o","t"," ","a","n","d"," ","S","c","o","o","t">>,
       UNCOMMON, Some(20), Some(3), None, FALSE, None),
     NewCard(<<"S","e","c","o","n","d"," ","W","i","n","d">>,
       UNCOMMON, Some(22), Some(3), None, FALSE, None),
     NewCard(<<"B","e","a","s","t"," ","S","e","n","s","e">>,
       UNCOMMON, Some(24), Some(3), None, FALSE, None),
     NewCard(<<"B","o","u","n","d","i","n","g"," ","S","t","r","i","d","e","s">>,
       UNCOMMON, Some(26), Some(3), None, FALSE, Some(<<"B","S","T">>)),
     NewCard(<<"R","e","c","k","l","e","s","s"," ","C","h","a","r","g","e">>,
       UNCOMMON, Some(28), Some(3), None, FALSE, None),
     NewCard(<<"S","p","r","i","n","t">>,
       UNCOMMON, Some(30), Some(3), None, FALSE, Some(<<"S","P","T">>)),
     NewCard(<<"N","i","m","b","l","e"," ","L","o","o","t","i","n","g">>,
       UNCOMMON, Some(32), Some(3), None, FALSE, None),
     NewCard(<<"S","m","a","s","h"," ","a","n","d"," ","G","r","a","b">>,
       UNCOMMON, Some(34), Some(3), None, FALSE, None),
     NewCard(<<"Q","u","i","c","k","s","t","e","p">>,
       UNCOMMON, Some(36), Some(3), None, FALSE, None),
     NewCard(<<"S","u","i","t"," ","U","p">>,
       UNCOMMON, Some(38), Some(1), None, TRUE, None),
     NewCard(<<"A","d","r","e","n","a","l","i","n","e"," ","R","u","s","h">>,
       UNCOMMON, Some(40), Some(3), None, FALSE, None) >>

RareDefs ==
  << NewCard(<<"E","e","r","i","e"," ","S","i","l","e","n","c","e">>,
       RARE, Some(46), Some(3), None, FALSE, None),
     NewCard(<<"D","u","n","g","e","o","n"," ","R","e","p","a","i","r","s">>,
       RARE, Some(48), Some(3), None, FALSE, None),
     NewCard(<<"S","w","a","g","g","e","r">>,
       RARE, Some(50), Some(3), None, FALSE, None),
     NewCard(<<"C","h","i","l","l"," ","S","t","e","p">>,
       RARE, Some(52), Some(3), None, FALSE, None),
     NewCard(<<"S","p","e","e","d"," ","R","u","n","n","e","r">>,
       RARE, Some(54), Some(3), None, TRUE, None),
     NewCard(<<"E","y","e","s"," ","o","n"," ","t","h","e"," ","P","r","i","z","e">>,
       RARE, Some(56), Some(3), None, FALSE, None),
     NewCard(<<"H","a","s","t","e">>,
       RARE, Some(60), Some(3), None, FALSE, None),
     NewCard(<<"C","o","l","d"," ","S","n","a","p">>,
       RARE, Some(62), Some(3), None, FALSE, None),
     NewCard(<<"S","i","l","e","n","t"," ","R","u","n","n","e","r">>,
       RARE, Some(64), Some(3), None, TRUE, None),
     NewCard(<<"F","u","z","z","y"," ","B","u","n","n","y"," ","S","l","i","p","p","e","r","s">>,
       RARE, Some(66), Some(3), None, TRUE, None),
     NewCard(<<"D","e","e","p","f","r","o","s","t">>,
       RARE, Some(68), Some(3), None, FALSE, Some(<<"D","E","F">>)),
     NewCard(<<"B","r","i","l","l","i","a","n","c","e">>,
       RARE, Some(70), Some(3), None, FALSE, None) >>

LegendaryDefs ==
  << NewLegendaryCard(<<"A","v","a","l","a","n","c","h","e">>,
       FALSE),
     NewLegendaryCard(<<"G","l","o","r","i","o","u","s"," ","M","o","m","e","n","t">>,
       TRUE),
     NewLegendaryCard(<<"B","e","a","s","t"," ","M","a","s","t","e","r">>,
       TRUE),
     NewLegendaryCard(<<"C","a","s","h"," ","C","o","w">>,
       FALSE),
     NewLegendaryCard(<<"B","o","o","t","s"," ","o","f"," ","S","w","i","f","t","n","e","s","s">>,
       TRUE) >>

PricedRegistry ==
  RegisterAll(CommonRegistry,
              MomentOfClarityDef \o UncommonDefs \o RareDefs \o LegendaryDefs)

p2w_power == (PricedRegistry.card_lookup[EMS].power * 5) + 8
taa_power ==
  PricedRegistry.card_lookup[EVA].power + PricedRegistry.card_lookup[TRH].power + 2

EtherealDefs ==
  << NewEtherealCard(<<"P","a","y"," ","t","o"," ","W","i","n">>,
       ETHEREAL, Some(3), Some(3), Some(p2w_power), FALSE, Some(<<"P","2","W">>)),
     NewEtherealCard(<<"T","a","c","t","i","c","a","l"," ","A","p","p","r","o","a","c","h">>,
       ETHEREAL, Some(3), None, Some(taa_power), TRUE, None),
     NewEtherealCard(<<"P","o","r","k","c","h","o","p"," ","P","o","w","e","r">>,
       ETHEREAL, Some(3), None, None, TRUE, None) >>

\* the registry once the module's card definitions have run
ImportedRegistry == RegisterAll(PricedRegistry, EtherealDefs)

(***************************************************************************)
(* The state.  Card.card_lookup and Card.name_map are the class attributes *)
(* that the registrations fill.  held is the deck in hand (None when there *)
(* is none, or when the call that was to make it has raised), last is the  *)
(* last call made with its outcome, calls is the number of calls made on   *)
(* the deck in hand.                                                       *)
(* fig is the chart (a DeckStatsFigure) on the screen, None when no chart  *)
(* has been made.                                                          *)
(***************************************************************************)
VARIABLES card_lookup, name_map, held, last, calls, fig

vars == <<card_lookup, name_map, held, last, calls, fig>>

(***************************************************************************)
(* Python dicts: a sequence of <<key, value>> pairs in insertion order.     *)
(***************************************************************************)
Keys(d) == {d[i][1] : i \in DOMAIN d}
Has(d, k) == k \in Keys(d)
Get(d, k) == d[CHOOSE i \in DOMAIN d : d[i][1] = k][2]
\* d[k] = v
Put(d, k, v) ==
  IF Has(d, k) THEN [i \in DOMAIN d |-> IF d[i][1] = k THEN <<k, v>> ELSE d[i]]
  ELSE Append(d, <<k, v>>)
\* the count a deck's dict holds for a code, 0 when the code is absent
CountOf(d, k) == IF Has(d, k) THEN Get(d, k) ELSE 0

(***************************************************************************)
(* class Deck.  A deck object is its cards dict, whether that dict is a     *)
(* defaultdict (dflt) or the plain dict of the dataclass default, and       *)
(* allow_negative.  A source is tagged with its Python type.                *)
(***************************************************************************)
StrSource(chars) == [kind |-> "str", val |-> chars]
DictSource(pairs) == [kind |-> "dict", val |-> pairs]
NoneSource == [kind |-> "None", val |-> <<>>]
IntSource(n) == [kind |-> "int", val |-> n]

Raised(e) == [exc |-> e, val |-> None]
Returned(v) == [exc |-> "none", val |-> v]

\* re.split(r",\w*", s): a separator is a comma and the word characters after it
RECURSIVE SkipWord(_)
SkipWord(s) == IF s # <<>> /\ Head(s) \in WordChars THEN SkipWord(Tail(s)) ELSE s
RECURSIVE re_split_from(_, _)
re_split_from(s, token) ==
  IF s = <<>> THEN <<token>>
  ELSE IF Head(s) = "," THEN <<token>> \o re_split_from(SkipWord(Tail(s)), <<>>)
  ELSE re_split_from(Tail(s), Append(token, Head(s)))
re_split(s) == re_split_from(s, <<>>)

AllIn(s, class) == \A i \in 1..Len(s) : s[i] \in class
IsDigits(s) == s # <<>> /\ AllIn(s, DigitChars)
ShortNameChars == UpperChars \cup DigitChars
FullNameChars == {" ", "'"} \cup UpperChars \cup LowerChars

NoMatch == None
Match(name, count) == Some([name |-> name, count |-> count])

\* re.match of (?P<name>[A-Z\d]{3})(?:x(?P<count>\d+))?$
runs_pattern(token) ==
  IF Len(token) >= 3 /\ AllIn(Prefix(token, 3), ShortNameChars)
  THEN IF Len(token) = 3 THEN Match(Prefix(token, 3), None)
       ELSE IF token[4] = "x" /\ IsDigits(Suffix(token, 4))
            THEN Match(Prefix(token, 3), Some(Suffix(token, 4)))
            ELSE NoMatch
  ELSE NoMatch

\* re.match of (?P<name>[A-Z\d]{3})(?P<count>[+-]\d+)$
cards_acquired_pattern(token) ==
  IF /\ Len(token) >= 5
     /\ AllIn(Prefix(token, 3), ShortNameChars)
     /\ token[4] \in {"+", "-"}
     /\ IsDigits(Suffix(token, 4))
  THEN Match(Prefix(token, 3), Some(Suffix(token, 3)))
  ELSE NoMatch

\* the longest prefix of digits
RECURSIVE DigitPrefixLen(_)
DigitPrefixLen(s) ==
  IF s # <<>> /\ Head(s) \in DigitChars THEN 1 + DigitPrefixLen(Tail(s)) ELSE 0

\* re.match of (?:(?P<count>\d*) )?(?P<name>[ A-Za-z']{4,})$ : the optional
\* count group is tried first, and given up when the name fails after it
do_card_stats_pattern(token) ==
  LET k == DigitPrefixLen(token)
      rest == Suffix(token, k + 1)
  IN  IF /\ Len(token) > k
         /\ token[k + 1] = " "
         /\ Len(rest) >= 4
         /\ AllIn(rest, FullNameChars)
      THEN Match(rest, Some(Prefix(token, k)))
      ELSE IF Len(token) >= 4 /\ AllIn(token, FullNameChars)
           THEN Match(token, None)
           ELSE NoMatch

Patterns == <<"runs_pattern", "cards_acquired_pattern", "do_card_stats_pattern">>
re_match(pattern, token) ==
  CASE pattern = "runs_pattern" -> runs_pattern(token)
    [] pattern = "cards_acquired_pattern" -> cards_acquired_pattern(token)
    [] pattern = "do_card_stats_pattern" -> do_card_stats_pattern(token)

VICTORY_TOME == <<"V","I","C","T","O","R","Y"," ","T","O","M","E">>
VT == <<"V","T">>

\* the loop of from_str over the tokens for one pattern: the dict built, or
\* None when a token does not match, or the KeyError of an unknown name
RECURSIVE ParseTokens(_, _, _)
ParseTokens(pattern, tokens, deck) ==
  IF tokens = <<>> THEN Returned(Some(deck))
  ELSE
    LET m == re_match(pattern, Head(tokens))
    IN
    IF m = NoMatch THEN Returned(None)
    ELSE
      LET card_str == upper(m[1].name)
          count == IF m[1].count # None /\ m[1].count[1] # <<>>
                   THEN int(m[1].count[1]) ELSE 1
      IN
      IF Contains(card_str, VICTORY_TOME) \/ Contains(card_str, VT)
      THEN ParseTokens(pattern, Tail(tokens), deck)
      ELSE IF card_str \notin DOMAIN name_map
      THEN Raised("KeyError")
      ELSE Bind(Put(deck, name_map[card_str], count),
                LAMBDA entered : ParseTokens(pattern, Tail(tokens), entered))

\* Deck.__post_init__ for a source that is not a string:
\* self.cards = defaultdict(lambda: 0, source or {})
DeckOfMapping(source, allow_negative) ==
  IF source.kind = "int" /\ source.val # 0
  THEN Raised("TypeError")
  ELSE Returned([cards |-> IF source.kind = "dict" THEN source.val ELSE <<>>,
                 dflt |-> TRUE,
                 allow_negative |-> allow_negative])

\* Deck.from_str(s): the first pattern that every token matches decides
RECURSIVE from_str_patterns(_, _)
from_str_patterns(s, n) ==
  IF n > Len(Patterns) THEN Raised("ValueError")
  ELSE
    Bind(ParseTokens(Patterns[n], re_split(s), <<>>),
         LAMBDA parsed :
           IF parsed.exc # "none" THEN parsed
           ELSE IF parsed.val # None THEN DeckOfMapping(DictSource(parsed.val[1]), FALSE)
           ELSE from_str_patterns(s, n + 1))
from_str(s) == from_str_patterns(s, 1)

\* Deck(source, allow_negative): the dataclass sets cards to a new plain dict,
\* then __post_init__ runs; for a string it calls from_str and drops the deck
\* that from_str returns
Deck(source, allow_negative) ==
  IF source.kind = "str"
  THEN Bind(from_str(source.val),
            LAMBDA parsed :
              IF parsed.exc # "none" THEN parsed
              ELSE Returned([cards |-> <<>>, dflt |-> FALSE,
                             allow_negative |-> allow_negative]))
  ELSE DeckOfMapping(source, allow_negative)

\* Deck.size
RECURSIVE SumCounts(_)
SumCounts(d) == IF d = <<>> THEN 0 ELSE Head(d)[2] + SumCounts(Tail(d))
size(deck) == SumCounts(deck.cards)

SMALL_DECK_SIZE == 10
STUMBLE_PENALTY == 7
BASE_DECK_OFFSET == 40

\* Deck.power: looking up a code that is no registered card raises KeyError
RECURSIVE SumPower(_)
SumPower(d) ==
  IF d = <<>> THEN 0 ELSE card_lookup[Head(d)[1]].power * Head(d)[2] + SumPower(Tail(d))
\* a power that adds the offset only where the penalty applies: the slip that
\* the offset claim has to tell from power
power_offset_with_penalty(deck) ==
  IF \E k \in Keys(deck.cards) : k \notin DOMAIN card_lookup
  THEN Raised("KeyError")
  ELSE LET p == SumPower(deck.cards)
       IN  Returned(IF size(deck) < SMALL_DECK_SIZE
                    THEN p - STUMBLE_PENALTY * (SMALL_DECK_SIZE - size(deck))
                         + BASE_DECK_OFFSET
                    ELSE p)
power(deck) ==
  IF \E k \in Keys(deck.cards) : k \notin DOMAIN card_lookup
  THEN Raised("KeyError")
  ELSE LET p == SumPower(deck.cards)
           penalised ==
             IF size(deck) < SMALL_DECK_SIZE
             THEN p - STUMBLE_PENALTY * (SMALL_DECK_SIZE - size(deck))
             ELSE p
       IN  Returned(penalised + BASE_DECK_OFFSET)

\* the loop of __add__: new_cards[s_name] += count for the items of the right
\* deck, in the left deck's own dict; a plain dict has no default for a new key
RECURSIVE AddItems(_, _, _)
AddItems(new_cards, dflt, items) ==
  IF items = <<>> THEN [exc |-> "none", cards |-> new_cards]
  ELSE LET s_name == Head(items)[1]
           count == Head(items)[2]
       IN  IF ~Has(new_cards, s_name) /\ ~dflt
           THEN [exc |-> "KeyError", cards |-> new_cards]
           ELSE Bind(Put(new_cards, s_name, CountOf(new_cards, s_name) + count),
                     LAMBDA added : AddItems(added, dflt, Tail(items)))

\* what a call on a deck comes to: the error raised, or what is returned
\* ("Deck" with the deck in val, or "NotImplemented"), and the receiver
\* afterwards
Outcome(exc, ret, val, self) == [exc |-> exc, ret |-> ret, val |-> val, self |-> self]

\* __add__ with a Deck on the right: new_cards is the left deck's dict itself
add_Deck(self, other) ==
  Bind(AddItems(self.cards, self.dflt, other.cards),
       LAMBDA loop :
         LET after == [self EXCEPT !.cards = loop.cards]
         IN  IF loop.exc # "none" THEN Outcome(loop.exc, "none", None, after)
             ELSE Outcome("none", "Deck",
                          Deck(DictSource(loop.cards), FALSE).val, after))

\* __add__ without its except clause: what the claim about unsupported
\* operands has to tell from __add__
add_propagating(self, o) ==
  IF o.kind = "Deck" THEN add_Deck(self, o.val)
  ELSE IF o.kind = "Card"
  THEN add_Deck(self, Deck(DictSource(<< <<o.val, 1>> >>), TRUE).val)
  ELSE Bind(Deck(o, TRUE),
            LAMBDA made : IF made.exc # "none" THEN Outcome(made.exc, "none", None, self)
                          ELSE add_Deck(self, made.val))

\* Deck.__add__(self, __o) for a Deck, a Card (by short name) or a raw source
__add__(self, o) ==
  IF o.kind = "Deck" THEN add_Deck(self, o.val)
  ELSE IF o.kind = "Card"
  THEN add_Deck(self, Deck(DictSource(<< <<o.val, 1>> >>), TRUE).val)
  ELSE Bind(Deck(o, TRUE),
            LAMBDA made :
              IF made.exc # "none" THEN Outcome("none", "NotImplemented", None, self)
              ELSE Bind(add_Deck(self, made.val),
                        LAMBDA sum :
                          IF sum.exc # "none"
                          THEN Outcome("none", "NotImplemented", None, sum.self)
                          ELSE sum))

\* self + o as the interpreter evaluates it: Deck.__add__, and TypeError when
\* it returns NotImplemented (no right operand here has an __radd__)
plus(self, o) ==
  Bind(__add__(self, o),
       LAMBDA sum :
         IF sum.exc = "none" /\ sum.ret = "NotImplemented"
         THEN Outcome("TypeError", "none", None, sum.self)
         ELSE sum)

\* Deck.__iadd__: new_deck = self + __o; self.cards = new_deck.cards
__iadd__(self, o) ==
  Bind(plus(self, o),
       LAMBDA sum :
         IF sum.exc # "none" THEN sum
         ELSE LET same == [sum.self EXCEPT !.cards = sum.val.cards,
                                           !.dflt = sum.val.dflt]
              IN  Outcome("none", "Deck", same, same))

\* str(n) for an integer
RECURSIVE NatChars(_)
NatChars(n) ==
  LET digit == CHOOSE c \in DigitChars : DigitVal[c] = n % 10
  IN  IF n < 10 THEN <<digit>> ELSE Append(NatChars(n \div 10), digit)
IntChars(n) == IF n < 0 THEN <<"-">> \o NatChars(0 - n) ELSE NatChars(n)

\* Deck.__str__: the items as <short name>x<count>, joined by commas
RECURSIVE JoinItems(_)
JoinItems(d) ==
  IF d = <<>> THEN <<>>
  ELSE LET item == Head(d)[1] \o <<"x">> \o IntChars(Head(d)[2])
       IN  IF Len(d) = 1 THEN item ELSE item \o <<",">> \o JoinItems(Tail(d))
__str__(self) == JoinItems(self.cards)

\* a strip that goes by the level of a card and not by its class: what the
\* property of strip_ethereal_cards has to tell from it
strip_by_level(self) ==
  IF \E k \in Keys(self.cards) : k \notin DOMAIN card_lookup
  THEN Outcome("KeyError", "none", None, self)
  ELSE LET keep(item) == card_lookup[item[1]].level # ETHEREAL
       IN  Outcome("none", "Deck",
                   Deck(DictSource(SelectSeq(self.cards, keep)), FALSE).val, self)

\* Deck.strip_ethereal_cards
strip_ethereal_cards(self) ==
  IF \E k \in Keys(self.cards) : k \notin DOMAIN card_lookup
  THEN Outcome("KeyError", "none", None, self)
  ELSE LET keep(item) == card_lookup[item[1]].cls # "EtherealCard"
           stripped_cards == SelectSeq(self.cards, keep)
       IN  Outcome("none", "Deck", Deck(DictSource(stripped_cards), FALSE).val, self)

(***************************************************************************)
(* data/parse.py: calculate_deck_stats.  run_data is the sequence of the    *)
(* rows of the table: hermit, hermit run number, ethereal cards and         *)
(* purchases, the last two holding a Deck or None.  The frame returned is   *)
(* its index, its columns in order and the cells of each column; a number   *)
(* in a cell is kept as the integer it equals, and "-" stands for the dash  *)
(* that replace_nan writes.                                                 *)
(***************************************************************************)
\* max(run_data["hermit run number"]); max of an empty column raises
max_run_num_of(run_data) ==
  IF run_data = <<>> THEN Raised("ValueError")
  ELSE LET nums == {run_data[i].run_num : i \in DOMAIN run_data}
       IN  Returned(CHOOSE m \in nums : \A n \in nums : n <= m)

\* player_current_deck[player]: the defaultdict makes the deck of a player it
\* does not hold yet with Deck.from_str("SNE,TRH")
current_deck_of(player_current_deck, player) ==
  IF Has(player_current_deck, player)
  THEN Returned(Get(player_current_deck, player))
  ELSE from_str(SNE \o <<",">> \o TRH)

\* player_deck_data[player]: [None] * (max_run_num + 1) for a new player
deck_data_of(player_deck_data, player, max_run_num) ==
  IF Has(player_deck_data, player) THEN Get(player_deck_data, player)
  ELSE [i \in 1..(max_run_num + 1) |-> None]

\* the loop over the rows; exc is the error that ends it early
RECURSIVE deck_rows(_, _, _, _, _)
deck_rows(rows, max_run_num, ignore_ethereal_cards, player_deck_data, player_current_deck) ==
  IF rows = <<>>
  THEN [exc |-> "none", player_deck_data |-> player_deck_data,
        player_current_deck |-> player_current_deck]
  ELSE
    LET player == Head(rows).hermit
        run_num == Head(rows).run_num
        raise(e) == [exc |-> e, player_deck_data |-> player_deck_data,
                     player_current_deck |-> player_current_deck]
    IN
    Bind(current_deck_of(player_current_deck, player), LAMBDA standing :
      IF standing.exc # "none" THEN raise(standing.exc) ELSE
      Bind(plus(standing.val, Head(rows).eth_cards), LAMBDA played :
        IF played.exc # "none" THEN raise(played.exc) ELSE
        Bind(IF ignore_ethereal_cards THEN strip_ethereal_cards(played.val) ELSE played,
             LAMBDA cur_deck :
          IF cur_deck.exc # "none" THEN raise(cur_deck.exc) ELSE
          Bind(strip_ethereal_cards(cur_deck.val), LAMBDA stripped :
            IF stripped.exc # "none" THEN raise(stripped.exc) ELSE
            Bind(plus(stripped.val, Head(rows).bought_cards), LAMBDA updated :
              IF updated.exc # "none" THEN raise(updated.exc) ELSE
              deck_rows(Tail(rows), max_run_num, ignore_ethereal_cards,
                        Put(player_deck_data, player,
                            [deck_data_of(player_deck_data, player, max_run_num)
                               EXCEPT ![run_num + 1] = cur_deck.val]),
                        Put(player_current_deck, player, updated.val)))))))

\* a cell of the frame returned
Cell(kind, val) == [kind |-> kind, val |-> val]
NaN == Cell("nan", None)
\* f'Cur {attr or "deck"}'
col_name(attr) == <<"Cur", IF attr = None THEN "deck" ELSE attr[1]>>

\* getattr(cell, attr) if cell else np.nan
attr_of(cell, attr) ==
  IF cell = None THEN Returned(NaN)
  ELSE IF attr = "size" THEN Returned(Cell("int", size(cell)))
  ELSE Bind(power(cell), LAMBDA p : IF p.exc # "none" THEN p
                                    ELSE Returned(Cell("int", p.val)))

\* one column of results: row 0 is the row renamed to col_name and takes the
\* player's current deck, then attr is taken of every cell
column_of(decks, current, attr, replace_nan) ==
  LET cells == [decks EXCEPT ![1] = current]
      taken == [i \in DOMAIN cells |->
                  IF attr = None
                  THEN Returned(IF cells[i] = None THEN Cell("None", None)
                                ELSE Cell("Deck", cells[i]))
                  ELSE attr_of(cells[i], attr[1])]
      shown(cell) == IF replace_nan /\ cell.kind \in {"nan", "None"}
                     THEN Cell("str", "-") ELSE cell
  IN  IF \E i \in DOMAIN taken : taken[i].exc # "none"
      THEN Raised(taken[CHOOSE i \in DOMAIN taken :
                          taken[i].exc # "none"
                          /\ \A j \in 1..(i - 1) : taken[j].exc = "none"].exc)
      ELSE Returned([i \in DOMAIN taken |-> shown(taken[i].val)])

calculate_deck_stats(run_data, attr, ignore_ethereal_cards, replace_nan) ==
  Bind(max_run_num_of(run_data), LAMBDA max_run_num :
    IF max_run_num.exc # "none" THEN max_run_num ELSE
    Bind(deck_rows(run_data, max_run_num.val, ignore_ethereal_cards, <<>>, <<>>),
         LAMBDA loop :
      IF loop.exc # "none" THEN Raised(loop.exc) ELSE
      LET players == [i \in DOMAIN loop.player_deck_data |-> loop.player_deck_data[i][1]]
          columns == [i \in DOMAIN players |->
                        column_of(loop.player_deck_data[i][2],
                                  Get(loop.player_current_deck, players[i]),
                                  attr, replace_nan)]
      IN  IF \E i \in DOMAIN columns : columns[i].exc # "none"
          THEN Raised(columns[CHOOSE i \in DOMAIN columns :
                                columns[i].exc # "none"
                                /\ \A j \in 1..(i - 1) : columns[j].exc = "none"].exc)
          ELSE Returned([index |-> [i \in 1..(max_run_num.val + 1) |->
                                      IF i = 1 THEN col_name(attr) ELSE <<i - 1>>],
                         columns |-> players,
                         cells |-> [i \in DOMAIN players |-> columns[i].val]])))

(***************************************************************************)
(* The inputs of the model.                                                *)
(***************************************************************************)
MOC == <<"M","O","C">>
\* a short name that no card has
XYZ == <<"X","Y","Z">>
\* Pay to Win: an EtherealCard of level ETHEREAL
P2W == <<"P","2","W">>

\* the most tokens in a deck text
MaxTokens == 2
\* the largest count written in a run-record token
MaxTokenCount == 2
\* the most calls made on a deck after it is constructed
MaxCalls == 2

TokenCodes == {SNE, TRH, MOC}
\* <short name>[x<count>]
RunTokens ==
  TokenCodes \cup {c \o <<"x">> \o IntChars(n) : c \in TokenCodes, n \in 1..MaxTokenCount}
\* <short name>(+|-)<count>
DeltaTokens == {c \o <<sign>> \o IntChars(1) : c \in {SNE, TRH}, sign \in {"+", "-"}}
\* [<count> ]<name>
TextTokens == {<<"S","n","e","a","k">>, <<"2"," ","S","n","e","a","k">>,
               <<"T","r","e","a","s","u","r","e"," ","H","u","n","t","e","r">>}
\* tokens of no grammar, of an unknown card, of a victory tome, of a large count
OtherTokens == {<<"s","n","e">>, XYZ, <<"V","T","X">>, <<"M","O","C","x","1","2">>}

Separators == {<<",">>, <<",", " ">>}
RECURSIVE Joined(_, _)
Joined(tokens, sep) ==
  IF Len(tokens) = 1 THEN tokens[1] ELSE tokens[1] \o sep \o Joined(Tail(tokens), sep)
RECURSIVE TokenLists(_, _)
TokenLists(class, n) ==
  IF n = 0 THEN {<<>>}
  ELSE {<<t>> \o rest : t \in class, rest \in TokenLists(class, n - 1)}
\* the texts of 2..MaxTokens tokens of one grammar
TextsOf(class) ==
  UNION {{Joined(ts, sep) : ts \in TokenLists(class, n), sep \in Separators} : n \in 2..MaxTokens}
SingleTexts == RunTokens \cup DeltaTokens \cup TextTokens \cup OtherTokens
DeckTexts == SingleTexts \cup TextsOf(RunTokens) \cup TextsOf(DeltaTokens) \cup TextsOf(TextTokens)

\* mappings short name -> count
DictInputs ==
  {<<>>, << <<SNE, 1>> >>, << <<SNE, 0 - 1>> >>, << <<TRH, 2>> >>, << <<MOC, 1>> >>,
   << <<XYZ, 1>> >>, << <<SNE, 1>>, <<TRH, 1>> >>, << <<SNE, 5>>, <<TRH, 5>> >>,
   << <<MOC, 1>>, <<SNE, 0 - 1>> >>, << <<SNE, 2>>, <<MOC, 1>>, <<P2W, 1>> >>}

\* what Deck(...) is called with
Sources ==
  {StrSource(t) : t \in DeckTexts} \cup {DictSource(d) : d \in DictInputs}
  \cup {NoneSource, IntSource(0), IntSource(5)}

\* the decks that one constructor call makes
MadeDecks ==
  {m.val : m \in {m \in {Deck(src, an) : src \in Sources, an \in BOOLEAN}
                           \cup {from_str(t) : t \in DeckTexts} : m.exc = "none"}}

\* the right operands of + : a deck (the receiver itself included), a card, a
\* raw source
DeckOperand(deck) == [kind |-> "Deck", val |-> deck]
CardOperand(s_name) == [kind |-> "Card", val |-> s_name]
RawOperands ==
  {StrSource(t) : t \in {SNE \o <<"x", "2">>, MOC, SNE \o <<"-", "1">>, <<"S","n","e","a","k">>,
                         <<"s","n","e">>, XYZ, SNE \o <<",">> \o TRH}}
  \cup {DictSource(d) : d \in {<<>>, << <<SNE, 1>> >>, << <<XYZ, 1>> >>}}
  \cup {NoneSource, IntSource(0), IntSource(5)}
Operands(self) ==
  {DeckOperand(d) : d \in {Deck(DictSource(d), FALSE).val : d \in DictInputs}
                           \cup {Deck(StrSource(SNE), FALSE).val, self}}
  \cup {CardOperand(c) : c \in TokenCodes}
  \cup RawOperands

\* the tables given to calculate_deck_stats
Players == {"Tango", "Etho"}
\* the most rows in a table
MaxRows == 2
\* the largest hermit run number
MaxRunNum == 2
EthCells == {NoneSource, DeckOperand(from_str(MOC).val)}
BoughtCells == {NoneSource, DeckOperand(from_str(STA).val), DeckOperand(from_str(MOC).val)}
Rows == [hermit : Players, run_num : 1..MaxRunNum, eth_cards : EthCells,
         bought_cards : BoughtCells]
RunTables == UNION {[1..n -> Rows] : n \in 0..MaxRows}
Attrs == {None, Some("size"), Some("power")}
StatsArgs(run_data, attr, ignore_ethereal_cards, replace_nan) ==
  [kind |-> "run_data",
   val |-> [run_data |-> run_data, attr |-> attr,
            ignore_ethereal_cards |-> ignore_ethereal_cards,
            replace_nan |-> replace_nan]]

(***************************************************************************)
(* The calls on decks.                                                     *)
(***************************************************************************)
\* the module deck has been imported: its card definitions have run
Imported ==
  /\ card_lookup = ImportedRegistry.card_lookup
  /\ name_map = ImportedRegistry.name_map

Call(op, arg, before, out) == [op |-> op, arg |-> arg, before |-> before, out |-> out]
NoArg == [kind |-> "none", val |-> <<>>]
NoCall == Call("none", NoArg, None, Outcome("none", "none", None, None))
Made(result) ==
  Outcome(result.exc, IF result.exc = "none" THEN "Deck" ELSE "none", result.val, None)

\* d = Deck(source, allow_negative)
CallDeck ==
  /\ last = NoCall
  /\ \E source \in Sources, allow_negative \in BOOLEAN :
       \E made \in {Deck(source, allow_negative)} :
         /\ last' = Call("Deck", source, allow_negative, Made(made))
         /\ held' = made.val
  /\ UNCHANGED <<fig, card_lookup, name_map, calls>>

\* d = Deck.from_str(s)
CallFromStr ==
  /\ last = NoCall
  /\ \E s \in DeckTexts :
       \E made \in {from_str(s)} :
         /\ last' = Call("from_str", StrSource(s), None, Made(made))
         /\ held' = made.val
  /\ UNCHANGED <<fig, card_lookup, name_map, calls>>

\* str(d)
CallStr ==
  /\ held # None
  /\ last.op \in {"Deck", "from_str"}
  /\ calls < MaxCalls
  /\ last' = Call("__str__", NoArg, held, Outcome("none", "str", __str__(held), held))
  /\ calls' = calls + 1
  /\ UNCHANGED <<fig, card_lookup, name_map, held>>

\* d = Deck.from_str(str(d)): the text that str has just given is parsed again
CallFromStrOfStr ==
  /\ last.op = "__str__"
  /\ \E made \in {from_str(last.out.val)} :
       /\ last' = Call("from_str", StrSource(last.out.val), last.before, Made(made))
       /\ held' = made.val
  /\ UNCHANGED <<fig, card_lookup, name_map, calls>>

\* d.__add__(o)
CallAdd ==
  /\ held # None
  /\ calls < MaxCalls
  /\ \E o \in Operands(held) :
       \E out \in {__add__(held, o)} :
         /\ last' = Call("__add__", o, held, out)
         /\ held' = out.self
  /\ calls' = calls + 1
  /\ UNCHANGED <<fig, card_lookup, name_map>>

\* d += o
CallIAdd ==
  /\ held # None
  /\ calls < MaxCalls
  /\ \E o \in Operands(held) :
       \E out \in {__iadd__(held, o)} :
         /\ last' = Call("__iadd__", o, held, out)
         /\ held' = out.self
  /\ calls' = calls + 1
  /\ UNCHANGED <<fig, card_lookup, name_map>>

\* d = d.strip_ethereal_cards()
CallStrip ==
  /\ held # None
  /\ calls < MaxCalls
  /\ \E out \in {strip_ethereal_cards(held)} :
       /\ last' = Call("strip_ethereal_cards", NoArg, held, out)
       /\ held' = out.val
  /\ calls' = calls + 1
  /\ UNCHANGED <<fig, card_lookup, name_map>>

\* d.power
CallPower ==
  /\ held # None
  /\ calls < MaxCalls
  /\ \E p \in {power(held)} :
       last' = Call("power", NoArg, held, Outcome(p.exc, "int", p.val, held))
  /\ UNCHANGED held
  /\ calls' = calls + 1
  /\ UNCHANGED <<fig, card_lookup, name_map>>

\* calculate_deck_stats(run_data, attr, ignore_ethereal_cards, replace_nan)
CallStats ==
  /\ last = NoCall
  /\ \E run_data \in RunTables, attr \in Attrs,
        ignore_ethereal_cards \in BOOLEAN, replace_nan \in BOOLEAN :
       \E out \in {calculate_deck_stats(run_data, attr, ignore_ethereal_cards, replace_nan)} :
         last' = Call("calculate_deck_stats",
                      StatsArgs(run_data, attr, ignore_ethereal_cards, replace_nan),
                      None,
                      Outcome(out.exc, IF out.exc = "none" THEN "DataFrame" ELSE "none",
                              out.val, None))
  /\ UNCHANGED <<fig, card_lookup, name_map, held, calls>>

(***************************************************************************)
(* The registration of cards.                                              *)
(***************************************************************************)
MaxRegistrations == 2

\* names of cards: one, two and three words, one with spaces around it, one
\* too short for a short name and one without a word
CardNames ==
  { <<"S","n","e","a","k">>,
    <<"S","n","e","a","k","y">>,
    <<"T","r","e","a","s","u","r","e"," ","H","u","n","t","e","r">>,
    <<" ","t","r","e","a","d"," ","h","a","r","d"," ">>,
    <<"M","o","m","e","n","t"," ","o","f"," ","C","l","a","r","i","t","y">>,
    <<"G","o">>,
    <<>> }
\* the argument short_name
ShortNameArgs == {None, Some(SNE), Some(<<"S","N">>)}

\* the arguments of the constructors Card, EtherealCard and LegendaryCard
NewCards ==
  {NewCard(name, COMMON, Some(7), Some(5), None, FALSE, short_name) :
     name \in CardNames, short_name \in ShortNameArgs}
  \cup {NewCard(<<"S","t","a","b","i","l","i","t","y">>,
                COMMON, None, Some(5), None, FALSE, None),
        NewEtherealCard(<<"S","n","e","a","k">>,
                        ETHEREAL, Some(3), Some(3), None, FALSE, Some(XYZ)),
        NewLegendaryCard(<<"S","n","e","a","k","y">>, TRUE)}

\* Card(...), EtherealCard(...), LegendaryCard(...): the dataclass runs
\* __post_init__ on the new card
CallCard ==
  /\ calls < MaxRegistrations
  /\ \E args \in NewCards :
       \E done \in {Card_post_init([card_lookup |-> card_lookup, name_map |-> name_map],
                                   args)} :
         /\ card_lookup' = done.reg.card_lookup
         /\ name_map' = done.reg.name_map
         /\ last' = Call("Card", [kind |-> "card", val |-> args], card_lookup,
                         Outcome(done.exc, "none", None, None))
  /\ calls' = calls + 1
  /\ UNCHANGED <<held, fig>>

\* the registry when the module deck starts to be imported, and once it has
\* been imported
InitRegister ==
  /\ \E reg \in {EmptyRegistry, ImportedRegistry} :
       /\ card_lookup = reg.card_lookup
       /\ name_map = reg.name_map
  /\ held = None
  /\ fig = None
  /\ last = NoCall
  /\ calls = 0

NextRegister == CallCard

SpecRegister == InitRegister /\ [][NextRegister]_vars

(***************************************************************************)
(* Deck texts and sources through the constructors.                        *)
(***************************************************************************)
InitParse ==
  /\ Imported
  /\ held = None
  /\ fig = None
  /\ last = NoCall
  /\ calls = 0

NextParse ==
  \/ CallDeck
  \/ CallFromStr
  \/ CallStr
  \/ CallFromStrOfStr

SpecParse == InitParse /\ [][NextParse]_vars

(***************************************************************************)
(* The operations of a deck that a constructor has made.                   *)
(***************************************************************************)
Init ==
  /\ Imported
  /\ held \in MadeDecks
  /\ fig = None
  /\ last = Call("made", NoArg, None, Outcome("none", "Deck", held, None))
  /\ calls = 0

Next ==
  \/ CallAdd
  \/ CallIAdd
  \/ CallStrip
  \/ CallPower

Spec == Init /\ [][Next]_vars

(***************************************************************************)
(* The deck simulation over a table of runs.                               *)
(***************************************************************************)
InitStats ==
  /\ Imported
  /\ held = None
  /\ fig = None
  /\ last = NoCall
  /\ calls = 0

NextStats == CallStats

SpecStats == InitStats /\ [][NextStats]_vars

(***************************************************************************)
(* The chart (data/plot.py): a DeckStatsFigure and the LineInfo of each    *)
(* player.  A figure is a record of lines_ (per label and panel the style  *)
(* of the solid line, the dashed line and the annotation drawn there, None *)
(* where the panel has no column of that label), labels (the keys of       *)
(* lines_ in the order of their insertion) and the four sets of labels.    *)
(***************************************************************************)
\* the artists that plot_series draws for a label on a panel: sent to the
\* back; width and weight are those the toolkit gives a new artist
PlottedStyle ==
  [zorder |-> 0, linewidth |-> "1.5", markeredgewidth |-> "1",
   fontweight |-> "normal", visible |-> TRUE]

\* the titles of deck_data, in order
TitlesOf(deck_data) == [i \in DOMAIN deck_data |-> deck_data[i][1]]
\* the columns of all the tables of deck_data, in the order plot_series meets them
RECURSIVE ColumnsOf(_, _)
ColumnsOf(deck_data, seen) ==
  IF deck_data = <<>> THEN seen
  ELSE ColumnsOf(Tail(deck_data),
                 seen \o SelectSeq(Head(deck_data)[2],
                                   LAMBDA col : \A i \in DOMAIN seen : seen[i] # col))

\* DeckStatsFigure.__init__ for tables whose players have run data and a colour
DeckStatsFigure_init(deck_data) ==
  LET labels == ColumnsOf(deck_data, <<>>)
      names == {labels[i] : i \in DOMAIN labels}
      axes == {deck_data[i][1] : i \in DOMAIN deck_data}
      columns(ax) == CHOOSE cols \in {deck_data[i][2] : i \in {j \in DOMAIN deck_data :
                                                                 deck_data[j][1] = ax}} : TRUE
  IN  [lines_ |-> [name \in names |->
                     [ax \in axes |->
                        IF \E i \in DOMAIN columns(ax) : columns(ax)[i] = name
                        THEN Some(PlottedStyle) ELSE None]],
       labels |-> labels,
       focused_lines |-> {},
       hidden_lines |-> {},
       unfocused_lines |-> names,
       visible_lines |-> names]

\* the panels of a figure
AxesOf(f) == UNION {DOMAIN f.lines_[name] : name \in DOMAIN f.lines_}

\* the panels that iter_lines(plots) and iter_annotations(plots) go through
PlotsOf(f, plots) ==
  IF plots = None \/ plots[1] = <<>> THEN AxesOf(f)
  ELSE {plots[1][i] : i \in DOMAIN plots[1]}

\* the setters that focus, unfocus, show and hide call on each artist
Restyled(style, how) ==
  CASE how = "focus" ->
         [style EXCEPT !.zorder = 1, !.linewidth = "2", !.markeredgewidth = "2",
                       !.fontweight = "bold"]
    [] how = "unfocus" ->
         [style EXCEPT !.zorder = 0, !.linewidth = "1", !.markeredgewidth = "1",
                       !.fontweight = "normal"]
    [] how = "show" -> [style EXCEPT !.visible = TRUE]
    [] how = "hide" -> [style EXCEPT !.visible = FALSE]

\* the loops over iter_lines(plots) and iter_annotations(plots) of a LineInfo
Restyle(f, name, plots, how) ==
  [f EXCEPT !.lines_[name] =
     [ax \in DOMAIN @ |->
        IF ax \in PlotsOf(f, plots) /\ @[ax] # None
        THEN Some(Restyled(@[ax][1], how)) ELSE @[ax]]]

\* what a method of LineInfo leaves: the figure, the value returned and the
\* error raised (set.remove raises KeyError for a label that is not in the set)
Done(f, ret, exc) == [fig |-> f, ret |-> ret, exc |-> exc]

\* LineInfo.focus
focus(f, name, plots) ==
  IF name \in f.hidden_lines THEN Done(f, FALSE, "none")
  ELSE IF name \in f.focused_lines THEN Done(f, FALSE, "none")
  ELSE
    LET styled == Restyle(f, name, plots, "focus")
    IN  IF name \notin styled.unfocused_lines THEN Done(styled, FALSE, "KeyError")
        ELSE Done([styled EXCEPT !.unfocused_lines = @ \ {name},
                                 !.focused_lines = @ \cup {name}], TRUE, "none")

\* LineInfo.unfocus
unfocus(f, name, plots) ==
  IF name \in f.hidden_lines THEN Done(f, FALSE, "none")
  ELSE IF name \in f.unfocused_lines THEN Done(f, FALSE, "none")
  ELSE
    LET styled == Restyle(f, name, plots, "unfocus")
        added == [styled EXCEPT !.unfocused_lines = @ \cup {name}]
    IN  IF name \notin added.focused_lines THEN Done(added, FALSE, "KeyError")
        ELSE Done([added EXCEPT !.focused_lines = @ \ {name}], TRUE, "none")

\* a show that leaves the label in the focused set
show_focused(f, name, plots) ==
  IF name \in f.visible_lines THEN Done(f, FALSE, "none")
  ELSE
    LET styled == Restyle(f, name, plots, "show")
    IN  IF name \notin styled.hidden_lines THEN Done(styled, FALSE, "KeyError")
        ELSE Done([styled EXCEPT !.hidden_lines = @ \ {name},
                                 !.visible_lines = @ \cup {name},
                                 !.focused_lines = @ \cup {name}], TRUE, "none")

\* LineInfo.show
show(f, name, plots) ==
  IF name \in f.visible_lines THEN Done(f, FALSE, "none")
  ELSE
    LET styled == Restyle(f, name, plots, "show")
    IN  IF name \notin styled.hidden_lines THEN Done(styled, FALSE, "KeyError")
        ELSE
          LET moved == [styled EXCEPT !.hidden_lines = @ \ {name},
                                      !.visible_lines = @ \cup {name},
                                      !.focused_lines = @ \cup {name}]
              unfocused == unfocus(moved, name, plots)
          IN  IF unfocused.exc # "none" THEN Done(unfocused.fig, FALSE, unfocused.exc)
              ELSE Done(unfocused.fig, TRUE, "none")

\* a hide that leaves the label in the unfocused set
hide_keeping_unfocused(f, name, plots) ==
  IF name \in f.hidden_lines THEN Done(f, FALSE, "none")
  ELSE
    LET styled == Restyle(f, name, plots, "hide")
        added == [styled EXCEPT !.hidden_lines = @ \cup {name}]
    IN  IF name \notin added.visible_lines THEN Done(added, FALSE, "KeyError")
        ELSE
          LET moved == [added EXCEPT !.visible_lines = @ \ {name}]
              unfocused == unfocus(moved, name, plots)
          IN  IF unfocused.exc # "none" THEN Done(unfocused.fig, FALSE, unfocused.exc)
              ELSE Done(unfocused.fig, TRUE, "none")

\* LineInfo.hide
hide(f, name, plots) ==
  IF name \in f.hidden_lines THEN Done(f, FALSE, "none")
  ELSE
    LET styled == Restyle(f, name, plots, "hide")
        added == [styled EXCEPT !.hidden_lines = @ \cup {name}]
    IN  IF name \notin added.visible_lines THEN Done(added, FALSE, "KeyError")
        ELSE
          LET moved == [added EXCEPT !.visible_lines = @ \ {name}]
              unfocused == unfocus(moved, name, plots)
          IN  IF unfocused.exc # "none" THEN Done(unfocused.fig, FALSE, unfocused.exc)
              ELSE Done([unfocused.fig EXCEPT !.unfocused_lines = @ \ {name}],
                        TRUE, "none")

\* the artists of a label on a panel, as on_hover chains them: the solid
\* line, the dashed line, the annotation
ArtistsOn(f, name, ax) ==
  IF f.lines_[name][ax] = None THEN <<>> ELSE <<"main_line", "interp_line", "annotation">>

\* the loop of on_hover over the artists of one label: hits[i] is what
\* contains(event) gives for the i-th artist; the loop ends with the first
\* call of focus or unfocus that returns True
RECURSIVE hover_artists(_, _, _, _)
hover_artists(f, name, ax, hits) ==
  IF hits = <<>> THEN Done(f, FALSE, "none")
  ELSE Bind(IF Head(hits) THEN focus(f, name, Some(<<ax>>))
            ELSE unfocus(f, name, Some(<<ax>>)),
            LAMBDA called :
              IF called.exc # "none" \/ called.ret THEN called
              ELSE hover_artists(called.fig, name, ax, Tail(hits)))

\* the loop of on_hover over self.lines_.items()
RECURSIVE hover_lines(_, _, _, _)
hover_lines(f, labels, event, lines_updated) ==
  IF labels = <<>> THEN Done(f, lines_updated, "none")
  ELSE Bind(hover_artists(f, Head(labels), event.inaxes[1], event.contains[Head(labels)]),
            LAMBDA line :
              IF line.exc # "none" THEN line
              ELSE hover_lines(line.fig, Tail(labels), event, lines_updated \/ line.ret))

\* DeckStatsFigure.on_hover: the figure afterwards, whether canvas.draw_idle()
\* was called (ret) and the error raised
on_hover(f, event) ==
  IF event.inaxes = None THEN Done(f, FALSE, "none")
  ELSE hover_lines(f, f.labels, event, FALSE)

\* for label in lines_to_hide: self.lines_[label].hide()
RECURSIVE hide_lines(_, _)
hide_lines(f, labels) ==
  IF labels = <<>> THEN Done(f, FALSE, "none")
  ELSE Bind(hide(f, Head(labels), None),
            LAMBDA hidden : IF hidden.exc # "none" THEN hidden
                            ELSE hide_lines(hidden.fig, Tail(labels)))

\* for label in lines_to_show: self.lines_[label].show()
RECURSIVE show_lines(_, _)
show_lines(f, labels) ==
  IF labels = <<>> THEN Done(f, FALSE, "none")
  ELSE Bind(show(f, Head(labels), None),
            LAMBDA shown : IF shown.exc # "none" THEN shown
                           ELSE show_lines(shown.fig, Tail(labels)))

\* the labels of a set, one after the other (each call of hide or show
\* touches its own label only, so the order of a set's iteration is immaterial)
InOrder(f, names) == SelectSeq(f.labels, LAMBDA name : name \in names)

LEFT == "LEFT"
RIGHT == "RIGHT"
MIDDLE == "MIDDLE"

\* the part of on_click that hides: skipped when it would hide all the lines
click_hide(f, lines_to_hide) ==
  IF lines_to_hide # f.visible_lines THEN hide_lines(f, InOrder(f, lines_to_hide))
  ELSE Done(f, FALSE, "none")

\* an on_click whose left button shows the hidden lines whether or not a line
\* is unfocused
on_click_restoring(f, button) ==
  LET lines_to_hide ==
        IF button = LEFT THEN (IF f.unfocused_lines # {} THEN f.unfocused_lines ELSE {})
        ELSE IF button = RIGHT THEN f.focused_lines
        ELSE {}
      lines_to_show == IF button = LEFT THEN f.hidden_lines ELSE {}
  IN  Bind(click_hide(f, lines_to_hide),
           LAMBDA hidden : IF hidden.exc # "none" THEN hidden
                           ELSE show_lines(hidden.fig, InOrder(hidden.fig, lines_to_show)))

\* DeckStatsFigure.on_click
on_click(f, button) ==
  LET lines_to_hide ==
        IF button = LEFT THEN (IF f.unfocused_lines # {} THEN f.unfocused_lines ELSE {})
        ELSE IF button = RIGHT THEN f.focused_lines
        ELSE {}
      lines_to_show ==
        IF button = LEFT /\ f.unfocused_lines = {} THEN f.hidden_lines ELSE {}
  IN  Bind(click_hide(f, lines_to_hide),
           LAMBDA hidden : IF hidden.exc # "none" THEN hidden
                           ELSE show_lines(hidden.fig, InOrder(hidden.fig, lines_to_show)))

\* the tables to chart: a panel title and the player columns of its table
DeckSize == "Deck Size"
DeckPower == "Deck Power"
DeckDataInputs ==
  { << <<DeckSize, <<"Tango", "Etho">> >>, <<DeckPower, <<"Tango">> >> >>,
    << <<DeckSize, <<"Etho">> >>, <<DeckPower, <<"Etho">> >> >>,
    << <<DeckSize, <<"Tango", "Etho", "Scar">> >> >> }

\* what contains(event) gives for the solid line, the dashed line and the
\* annotation of a label: none, the solid line only, the annotation only, all
ContainsResults ==
  {<<FALSE, FALSE, FALSE>>, <<TRUE, FALSE, FALSE>>, <<FALSE, FALSE, TRUE>>,
   <<TRUE, TRUE, TRUE>>}

\* the pointer events: the panel under the pointer (None outside the panels)
\* and, for each artist there, whether it contains the pointer
HoverEvents(f) ==
  {[inaxes |-> None, contains |-> [name \in DOMAIN f.lines_ |-> <<>>]]}
  \cup UNION {
    {[inaxes |-> Some(ax), contains |-> hits] :
       hits \in {h \in [DOMAIN f.lines_ -> {<<>>} \cup ContainsResults] :
                   \A name \in DOMAIN f.lines_ : Len(h[name]) = Len(ArtistsOn(f, name, ax))}}
    : ax \in AxesOf(f)}
Buttons == {LEFT, RIGHT, MIDDLE}
\* the argument plots of the methods of LineInfo
PlotsArgs(f) == {None} \cup {Some(<<ax>>) : ax \in AxesOf(f)}

\* the four sets of a figure
SetsOf(f) ==
  [focused_lines |-> f.focused_lines, unfocused_lines |-> f.unfocused_lines,
   hidden_lines |-> f.hidden_lines, visible_lines |-> f.visible_lines]

Handled(done) == Outcome(done.exc, "none", done.ret, None)
Answered(done) == Outcome(done.exc, "bool", done.ret, None)
EventArg(event) == [kind |-> "event", val |-> event]
LineArg(name, plots) == [kind |-> "line", val |-> [name |-> name, plots |-> plots]]

\* a pointer move over the figure
OnHover ==
  /\ fig # None
  /\ \E event \in HoverEvents(fig) :
       \E done \in {on_hover(fig, event)} :
         /\ fig' = done.fig
         /\ last' = Call("on_hover", EventArg(event), SetsOf(fig), Handled(done))
  /\ UNCHANGED <<card_lookup, name_map, held, calls>>

\* a press of a mouse button on the figure
OnClick ==
  /\ fig # None
  /\ \E button \in Buttons :
       \E done \in {on_click(fig, button)} :
         /\ fig' = done.fig
         /\ last' = Call("on_click", EventArg([button |-> button]), SetsOf(fig), Handled(done))
  /\ UNCHANGED <<card_lookup, name_map, held, calls>>

\* self.lines_[name].focus(plots)
CallFocus ==
  /\ fig # None
  /\ \E name \in DOMAIN fig.lines_, plots \in PlotsArgs(fig) :
       \E done \in {focus(fig, name, plots)} :
         /\ fig' = done.fig
         /\ last' = Call("focus", LineArg(name, plots), SetsOf(fig), Answered(done))
  /\ UNCHANGED <<card_lookup, name_map, held, calls>>

\* self.lines_[name].unfocus(plots)
CallUnfocus ==
  /\ fig # None
  /\ \E name \in DOMAIN fig.lines_, plots \in PlotsArgs(fig) :
       \E done \in {unfocus(fig, name, plots)} :
         /\ fig' = done.fig
         /\ last' = Call("unfocus", LineArg(name, plots), SetsOf(fig), Answered(done))
  /\ UNCHANGED <<card_lookup, name_map, held, calls>>

\* self.lines_[name].show(plots)
CallShow ==
  /\ fig # None
  /\ \E name \in DOMAIN fig.lines_, plots \in PlotsArgs(fig) :
       \E done \in {show(fig, name, plots)} :
         /\ fig' = done.fig
         /\ last' = Call("show", LineArg(name, plots), SetsOf(fig), Answered(done))
  /\ UNCHANGED <<card_lookup, name_map, held, calls>>

\* self.lines_[name].hide(plots)
CallHide ==
  /\ fig # None
  /\ \E name \in DOMAIN fig.lines_, plots \in PlotsArgs(fig) :
       \E done \in {hide(fig, name, plots)} :
         /\ fig' = done.fig
         /\ last' = Call("hide", LineArg(name, plots), SetsOf(fig), Answered(done))
  /\ UNCHANGED <<card_lookup, name_map, held, calls>>

\* a figure has been constructed: all its lines visible and unfocused
InitChart ==
  /\ Imported
  /\ held = None
  /\ last = NoCall
  /\ calls = 0
  /\ fig \in {DeckStatsFigure_init(deck_data) : deck_data \in DeckDataInputs}

(***************************************************************************)
(* The chart under the events of the pointer.                              *)
(***************************************************************************)
NextChart ==
  \/ OnHover
  \/ OnClick

SpecChart == InitChart /\ [][NextChart]_vars

(***************************************************************************)
(* The chart under calls of the methods of its LineInfo objects.           *)
(***************************************************************************)
NextLines ==
  \/ CallFocus
  \/ CallUnfocus
  \/ CallShow
  \/ CallHide

SpecLines == InitChart /\ [][NextLines]_vars

(***************************************************************************)
(* The construction of the chart: DeckStatsFigure.__init__, plot_dataframe *)
(* and plot_series.  A series is the sequence of its cells in index order, *)
(* TRUE for a finite value and FALSE for a missing one; the index of the   *)
(* cell at position i of a plotted series is the run number i.             *)
(***************************************************************************)
\* the keys of the module's palette HERMIT_COLOR_MAP
HERMIT_COLOR_MAP ==
  {"Bdubs", "Cub", "Doc", "Etho", "False", "Gem", "Grian", "Hypno", "Jevin",
   "Impulse", "Iskall", "Joe", "Keralis", "Mumbo", "Pearl", "Ren", "Scar", "Stress",
   "Tango", "Beef", "xB", "Xisuma", "Zed", "Cleo"}

\* interpolated_s = s[np.isfinite(s)]: the index values of the finite cells
FiniteIndex(s) == {i \in DOMAIN s : s[i]}
Lowest(idx) == CHOOSE i \in idx : \A j \in idx : i <= j
Highest(idx) == CHOOSE i \in idx : \A j \in idx : j <= i

\* the index values that plot_series replaces by nan in the bridging series;
\* last_idx_val is read at position 0 of the index, as first_idx_val is
indices_to_drop(interpolated_s) ==
  LET first_idx_val == Lowest(interpolated_s)
      last_idx_val == Lowest(interpolated_s)
      inner == interpolated_s \ {Lowest(interpolated_s), Highest(interpolated_s)}
  IN  {idx_val \in inner : idx_val + 1 \in interpolated_s /\ idx_val - 1 \in interpolated_s}
      \cup (IF first_idx_val + 1 \in interpolated_s THEN {first_idx_val} ELSE {})
      \cup (IF last_idx_val - 1 \in interpolated_s THEN {last_idx_val} ELSE {})

\* the bridging series that plot_series draws dashed: for each index value of
\* a finite cell, TRUE where the value is left and FALSE where it is now nan
BridgingSeries(s) ==
  LET interpolated_s == FiniteIndex(s)
  IN  [idx \in interpolated_s |-> idx \notin indices_to_drop(interpolated_s)]

\* what plot_series leaves: the error raised, the bridging series and the
\* index value at which the annotation is anchored
Plotted(exc, interp, xy) == [exc |-> exc, interp |-> interp, xy |-> xy]

\* DeckStatsFigure.plot_series for the series s of the column label
plot_series(s, label, color_map) ==
  IF FiniteIndex(s) = {} THEN Plotted("IndexError", <<>>, None)
  ELSE IF label \notin color_map THEN Plotted("KeyError", <<>>, None)
  ELSE IF label \notin HERMIT_COLOR_MAP THEN Plotted("KeyError", <<>>, None)
  ELSE Plotted("none", BridgingSeries(s), Some(Highest(FiniteIndex(s))))

\* DeckStatsFigure.plot_dataframe: the first row of the table is dropped and
\* each column plotted; the first error ends it
RECURSIVE plot_dataframe(_, _, _)
plot_dataframe(columns, series, color_map) ==
  IF columns = <<>> THEN "none"
  ELSE Bind(plot_series(Tail(series[Head(columns)]), Head(columns), color_map),
            LAMBDA plotted :
              IF plotted.exc # "none" THEN plotted.exc
              ELSE plot_dataframe(Tail(columns), series, color_map))

\* for i, (title, df) in enumerate(self.deck_data.items()): plot_dataframe
RECURSIVE plot_tables(_, _)
plot_tables(deck_data, color_map) ==
  IF deck_data = <<>> THEN "none"
  ELSE Bind(plot_dataframe(Head(deck_data)[2], Head(deck_data)[3], color_map),
            LAMBDA exc : IF exc # "none" THEN exc
                         ELSE plot_tables(Tail(deck_data), color_map))

\* what the constructor leaves: the figure (None when it raises), the error,
\* the start of its message and the players the message names
Constructed(f, exc, message, players) ==
  [fig |-> f, exc |-> exc, message |-> message, players |-> players]

\* the checks of DeckStatsFigure.__init__ in the other order
DeckStatsFigure_color_first(deck_data, hermits, color_map) ==
  LET players == UNION {{deck_data[i][2][j] : j \in DOMAIN deck_data[i][2]} :
                          i \in DOMAIN deck_data}
  IN  IF players \ color_map # {}
      THEN Constructed(None, "ValueError", "No color provided for the following players: ",
                       players \ color_map)
      ELSE IF players \ hermits # {}
      THEN Constructed(None, "ValueError", "Missing run data for the following players: ",
                       players \ hermits)
      ELSE Bind(plot_tables(deck_data, color_map),
                LAMBDA exc : IF exc # "none" THEN Constructed(None, exc, "", {})
                             ELSE Constructed(DeckStatsFigure_init(deck_data), "none", "", {}))

\* DeckStatsFigure(deck_data, run_data, color_map=color_map): hermits is the
\* set of the values of run_data["hermit"], color_map the keys of the mapping
DeckStatsFigure(deck_data, hermits, color_map) ==
  LET players == UNION {{deck_data[i][2][j] : j \in DOMAIN deck_data[i][2]} :
                          i \in DOMAIN deck_data}
  IN  IF players \ hermits # {}
      THEN Constructed(None, "ValueError", "Missing run data for the following players: ",
                       players \ hermits)
      ELSE IF players \ color_map # {}
      THEN Constructed(None, "ValueError", "No color provided for the following players: ",
                       players \ color_map)
      ELSE Bind(plot_tables(deck_data, color_map),
                LAMBDA exc : IF exc # "none" THEN Constructed(None, exc, "", {})
                             ELSE Constructed(DeckStatsFigure_init(deck_data), "none", "", {}))

\* the players of the tables, the run table and the colour mapping: one of
\* the palette and one without a colour there
Wels == "Wels"
FigurePlayers == {"Tango", Wels}
\* the columns of a statistic table: a current row and the runs after it, and
\* a column with no finite value after the current row
TableSeries == {<<TRUE, TRUE, TRUE, FALSE, TRUE>>, <<TRUE, FALSE, FALSE>>}
TableColumns == {<<"Tango">>, <<"Tango", Wels>>, <<Wels>>}
\* the statistic tables: one or two panels over the same columns
FigureTables ==
  UNION {
    UNION {
      { << <<DeckSize, columns, series>> >>,
        << <<DeckSize, columns, series>>, <<DeckPower, columns, series>> >> }
      : series \in [{columns[i] : i \in DOMAIN columns} -> TableSeries]}
    : columns \in TableColumns}

\* fig = DeckStatsFigure(deck_data, run_data, color_map=color_map)
CallDeckStatsFigure ==
  /\ last = NoCall
  /\ \E deck_data \in FigureTables, hermits \in SUBSET FigurePlayers,
        color_map \in SUBSET FigurePlayers :
       \E made \in {DeckStatsFigure(deck_data, hermits, color_map)} :
         /\ fig' = made.fig
         /\ last' = Call("DeckStatsFigure",
                         [kind |-> "figure",
                          val |-> [deck_data |-> deck_data, hermits |-> hermits,
                                   color_map |-> color_map]],
                         None,
                         Outcome(made.exc, IF made.exc = "none" THEN "DeckStatsFigure" ELSE "none",
                                 [message |-> made.message, players |-> made.players], None))
  /\ UNCHANGED <<card_lookup, name_map, held, calls>>

\* no figure has been made yet
InitFigure ==
  /\ Imported
  /\ held = None
  /\ fig = None
  /\ last = NoCall
  /\ calls = 0

NextFigure == CallDeckStatsFigure

SpecFigure == InitFigure /\ [][NextFigure]_vars

(***************************************************************************)
(* plot_series over the series of a column.                                *)
(***************************************************************************)
MaxRunPositions == 6
\* the series of a column after its current row: up to MaxRunPositions runs,
\* each with a finite or a missing value
SeriesInputs ==
  UNION {[1..n -> BOOLEAN] : n \in 0..MaxRunPositions}

\* self.plot_series(ax, s, label) for a label with a colour in the mapping
CallPlotSeries ==
  /\ last = NoCall
  /\ \E s \in SeriesInputs, label \in FigurePlayers :
       \E plotted \in {plot_series(s, label, FigurePlayers)} :
         last' = Call("plot_series",
                      [kind |-> "series", val |-> [s |-> s, label |-> label]],
                      None,
                      Outcome(plotted.exc, "none",
                              [interp |-> plotted.interp, xy |-> plotted.xy], None))
  /\ UNCHANGED <<card_lookup, name_map, held, calls, fig>>

NextSeries == CallPlotSeries

SpecSeries == InitFigure /\ [][NextSeries]_vars

(***************************************************************************)
(* Properties of Deck.from_str and of the constructor (SpecParse).         *)
(***************************************************************************)
\* the token lists of run-record tokens with pairwise different codes
RunTokenLists ==
  {ts \in UNION {TokenLists(RunTokens, n) : n \in 1..MaxTokens} :
     \A i, j \in DOMAIN ts : i # j => Prefix(ts[i], 3) # Prefix(ts[j], 3)}
\* the count that a run-record token list gives a code
TokenCount(ts, code) ==
  IF \E i \in DOMAIN ts : Prefix(ts[i], 3) = code
  THEN LET t == ts[CHOOSE i \in DOMAIN ts : Prefix(ts[i], 3) = code]
       IN  IF Len(t) = 3 THEN 1 ELSE int(Suffix(t, 4))
  ELSE 0
SNEx1_TRHx1 == <<"S","N","E","x","1",",","T","R","H","x","1">>

\* C1: Deck.from_str of a comma-separated text of run-record tokens returns a
\* deck holding every token's code with its count (1 when the count is left
\* out); the deck parsed from "SNEx1,TRHx1" has size 2 and power 0.
C1_FromStrRunRecords ==
  last.op = "from_str" =>
    /\ \A ts \in RunTokenLists :
         last.arg.val = Joined(ts, <<",">>) =>
           /\ last.out.exc = "none"
           /\ \A code \in TokenCodes :
                CountOf(last.out.val.cards, code) = TokenCount(ts, code)
    /\ last.arg.val = SNEx1_TRHx1 =>
         /\ last.out.exc = "none"
         /\ size(last.out.val) = 2
         /\ power(last.out.val) = Returned(0)

\* C7: Deck(source) for a deck text holds the card counts that Deck.from_str
\* gives for that text.
C7_DeckOfText ==
  last.op = "Deck" /\ last.arg.kind = "str" /\ from_str(last.arg.val).exc = "none" =>
    /\ last.out.exc = "none"
    /\ \A code \in DOMAIN card_lookup :
         CountOf(last.out.val.cards, code) = CountOf(from_str(last.arg.val).val.cards, code)

\* a source that gives some card a negative count: a mapping, or a delta token
GivesNegative(source) ==
  \/ /\ source.kind = "dict"
     /\ \E i \in DOMAIN source.val : source.val[i][2] < 0
  \/ /\ source.kind = "str"
     /\ source.val \in DeltaTokens
     /\ source.val[4] = "-"

\* C10: constructing a Deck with allow_negative false from a source that gives
\* a card a negative count fails, and no deck with allow_negative false that
\* holds a negative count is made.
C10_NegativeRejected ==
  /\ last.op = "Deck" /\ last.before = FALSE /\ GivesNegative(last.arg) =>
       last.out.exc # "none"
  /\ last.op \in {"Deck", "from_str"} /\ last.out.exc = "none"
       /\ ~last.out.val.allow_negative =>
       \A i \in DOMAIN last.out.val.cards : last.out.val.cards[i][2] >= 0

\* the comma-separated texts of run-record tokens with different codes
RunRecordTexts == {Joined(ts, <<",">>) : ts \in RunTokenLists}
\* the decks that Deck.from_str and Deck(...) make of these texts
RunRecordDecks ==
  {m.val : m \in {m \in {from_str(t) : t \in RunRecordTexts}
                         \cup {Deck(StrSource(t), FALSE) : t \in RunRecordTexts} :
                    m.exc = "none"}}

\* C12: a deck constructed from a valid run-record text, written with str()
\* and parsed again with Deck.from_str, gives a deck with the same card
\* counts: parsing what str gives for such a deck succeeds with the count of
\* every code unchanged.
C12_ReparseOfStr ==
  last.op = "from_str" /\ last.before # None /\ last.before \in RunRecordDecks =>
    /\ last.out.exc = "none"
    /\ \A code \in DOMAIN card_lookup :
         CountOf(last.out.val.cards, code) = CountOf(last.before.cards, code)

\* the token lists of one grammar, of two tokens or more
SameGrammarLists ==
  UNION {TokenLists(RunTokens, n) \cup TokenLists(DeltaTokens, n)
         \cup TokenLists(TextTokens, n) : n \in 2..MaxTokens}
TRH1_SNE_1 == <<"T","R","H","+","1",","," ","S","N","E","-","1">>

\* C13: a text whose tokens are separated by a comma and a space parses, and
\* to the same deck as the text with a comma alone between the tokens;
\* "TRH+1, SNE-1" parses to 1 Treasure Hunter and -1 Sneak.
C13_WhitespaceTolerated ==
  last.op = "from_str" /\ last.before = None =>
    /\ \A ts \in SameGrammarLists :
         last.arg.val = Joined(ts, <<",", " ">>) =>
           /\ last.out.exc = "none"
           /\ from_str(Joined(ts, <<",">>)).exc = "none"
           /\ last.out.val.cards = from_str(Joined(ts, <<",">>)).val.cards
    /\ last.arg.val = TRH1_SNE_1 =>
         /\ last.out.exc = "none"
         /\ CountOf(last.out.val.cards, TRH) = 1
         /\ CountOf(last.out.val.cards, SNE) = 0 - 1

(***************************************************************************)
(* Properties of the registration of cards (SpecRegister).                 *)
(***************************************************************************)
\* the short code of a card to register: the explicit one, or the one derived
\* from the words of its name (no code when the name has no word)
CodeOf(args) ==
  IF args.short_name # None THEN args.short_name
  ELSE IF split(strip(args.name)) = <<>> THEN None
  ELSE Some(ShortNameOf(strip(args.name)))

\* C14: no two distinct registered cards share a short code, every registered
\* short code has exactly 3 characters, and registering a card whose derived
\* or explicit short code is already registered fails and leaves the code to
\* the earlier card.
C14_UniqueShortCodes ==
  /\ \A code \in DOMAIN card_lookup :
       /\ Len(code) = 3
       /\ card_lookup[code].short_name = code
  /\ \A c1, c2 \in DOMAIN card_lookup :
       c1 # c2 => card_lookup[c1].short_name # card_lookup[c2].short_name
  /\ last.op = "Card" =>
       \A code \in DOMAIN last.before :
         /\ code \in DOMAIN card_lookup
         /\ CodeOf(last.arg.val) = Some(code) =>
              /\ last.out.exc = "ValueError"
              /\ card_lookup[code] = last.before[code]

\* a card whose derived short code belongs to an earlier, different card has
\* been refused
C14_DerivedCodeTaken ==
  /\ last.op = "Card"
  /\ last.arg.val.short_name = None
  /\ CodeOf(last.arg.val) # None
  /\ CodeOf(last.arg.val)[1] \in DOMAIN last.before
  /\ last.before[CodeOf(last.arg.val)[1]].name # strip(last.arg.val.name)
  /\ last.out.exc = "ValueError"

\* C27: a registration that fails leaves Card.card_lookup and Card.name_map
\* exactly as they were before the attempt.
C27_FailedRegistrationLeavesRegistry ==
  [][last'.op = "Card" /\ last'.out.exc # "none" =>
       /\ card_lookup' = card_lookup
       /\ name_map' = name_map]_vars

(***************************************************************************)
(* Properties of the operations of a deck (Spec).                          *)
(***************************************************************************)
\* the sum over the entries of card power times count
RECURSIVE EntriesPower(_)
EntriesPower(cards) ==
  IF cards = <<>> THEN 0
  ELSE card_lookup[cards[Len(cards)][1]].power * cards[Len(cards)][2]
       + EntriesPower(SubSeq(cards, 1, Len(cards) - 1))
\* the number of cards of a deck
CardsIn(cards) == SumCounts(cards)

\* C5: power is the sum over the entries of card power times count, less
\* 7 x (10 - size) when size < 10, plus 40 in every case.
C5_PowerFormula ==
  last.op = "power" /\ Keys(last.before.cards) \subseteq DOMAIN card_lookup =>
    /\ last.out.exc = "none"
    /\ last.out.val =
         EntriesPower(last.before.cards)
         - (IF CardsIn(last.before.cards) < 10
            THEN 7 * (10 - CardsIn(last.before.cards)) ELSE 0)
         + 40
\* the power of a deck of 10 cards or more has been taken: no penalty, and 40
C5_LargeDeckPower ==
  /\ last.op = "power"
  /\ CardsIn(last.before.cards) >= 10
  /\ last.out.exc = "none"
  /\ last.out.val = EntriesPower(last.before.cards) + 40

\* C6: for any two decks a and b, a + b is a deck whose count for every code
\* is a's count plus b's count, a code absent from one of them counting 0.
C6_AddCounts ==
  last.op = "__add__" /\ last.arg.kind = "Deck" =>
    /\ last.out.exc = "none"
    /\ last.out.ret = "Deck"
    /\ \A code \in Keys(last.before.cards) \cup Keys(last.arg.val.cards) :
         CountOf(last.out.val.cards, code) =
           CountOf(last.before.cards, code) + CountOf(last.arg.val.cards, code)

\* C8: deck + <deck text> returns a deck whose counts are the left deck's
\* counts plus the counts parsed from the text.
C8_AddText ==
  last.op = "__add__" /\ last.arg.kind = "str" /\ from_str(last.arg.val).exc = "none" =>
    /\ last.out.exc = "none"
    /\ last.out.ret = "Deck"
    /\ \A code \in DOMAIN card_lookup :
         CountOf(last.out.val.cards, code) =
           CountOf(last.before.cards, code)
           + CountOf(from_str(last.arg.val).val.cards, code)

\* C9: __add__ with a right operand that is neither a Deck nor a Card and of
\* which no Deck can be made returns NotImplemented and raises nothing.
C9_UnsupportedOperand ==
  last.op = "__add__" /\ last.arg.kind \notin {"Deck", "Card"}
    /\ Deck(last.arg, TRUE).exc # "none" =>
    /\ last.out.exc = "none"
    /\ last.out.ret = "NotImplemented"
\* __add__ has returned NotImplemented for a text that is no deck text
C9_UnparseableText ==
  /\ last.op = "__add__"
  /\ last.arg.kind = "str"
  /\ Deck(last.arg, TRUE).exc = "ValueError"
  /\ last.out.exc = "none"
  /\ last.out.ret = "NotImplemented"

\* the entries of the cards that are no EtherealCard, and the entries of the
\* cards whose level is not ETHEREAL, in their order
EntriesNotEtherealCard(cards) ==
  SelectSeq(cards, LAMBDA item : card_lookup[item[1]].cls # "EtherealCard")
EntriesNotEtherealLevel(cards) ==
  SelectSeq(cards, LAMBDA item : card_lookup[item[1]].level # ETHEREAL)

\* C11 as stated: strip_ethereal_cards() returns a deck that lacks exactly the
\* entries whose card is of Ethereal rarity (level) and keeps every other
\* entry with its count.
C11_StripsEtherealRarity ==
  last.op = "strip_ethereal_cards"
    /\ Keys(last.before.cards) \subseteq DOMAIN card_lookup =>
    /\ last.out.exc = "none"
    /\ last.out.val.cards =
         EntriesNotEtherealLevel(last.before.cards)

\* C11 amended: strip_ethereal_cards() returns a deck that lacks exactly the
\* entries whose card is an EtherealCard, whatever its level (Moment of
\* Clarity is an EtherealCard of level COMMON), and keeps every other entry
\* with its count, for every deck of registered cards.
C11_StripsEtherealCards ==
  last.op = "strip_ethereal_cards"
    /\ Keys(last.before.cards) \subseteq DOMAIN card_lookup =>
    /\ last.out.exc = "none"
    /\ last.out.val.cards =
         EntriesNotEtherealCard(last.before.cards)
\* a deck holding Moment of Clarity, Pay to Win and Sneak has been stripped
C11_StrippedMixedDeck ==
  /\ last.op = "strip_ethereal_cards"
  /\ {SNE, MOC, P2W} \subseteq Keys(last.before.cards)
  /\ last.out.exc = "none"
  /\ Keys(last.out.val.cards) = {SNE}

(***************************************************************************)
(* Properties of calculate_deck_stats (SpecStats).                         *)
(***************************************************************************)
StatsRows == last.arg.val.run_data
\* no two rows of the table are the same run of the same player
DistinctRuns ==
  \A i, j \in DOMAIN StatsRows :
    i # j => <<StatsRows[i].hermit, StatsRows[i].run_num>>
             # <<StatsRows[j].hermit, StatsRows[j].run_num>>
\* the cell of the frame returned for a player and a row (0 for the Cur row)
StatsCell(player, run_num) ==
  last.out.val.cells[CHOOSE k \in DOMAIN last.out.val.columns :
                       last.out.val.columns[k] = player][run_num + 1]
\* the count a Deck-or-None cell of the table gives a code
CellCount(operand, code) ==
  IF operand.kind = "Deck" THEN CountOf(operand.val.cards, code) ELSE 0
\* the rows i < j are consecutive rows of one player
ConsecutiveRows(i, j) ==
  /\ i < j
  /\ StatsRows[i].hermit = StatsRows[j].hermit
  /\ \A k \in (i + 1)..(j - 1) : StatsRows[k].hermit # StatsRows[i].hermit

\* C2: the deck recorded at the first row of a player is the starting deck,
\* 1 Sneak and 1 Treasure Hunter, plus the ethereal cards of that row.
C2_FirstRecordedDeck ==
  last.op = "calculate_deck_stats" /\ last.arg.val.attr = None
    /\ ~last.arg.val.ignore_ethereal_cards /\ StatsRows # <<>> /\ DistinctRuns =>
    /\ last.out.exc = "none"
    /\ \A i \in DOMAIN StatsRows :
         (\A k \in 1..(i - 1) : StatsRows[k].hermit # StatsRows[i].hermit) =>
           /\ StatsCell(StatsRows[i].hermit, StatsRows[i].run_num).kind = "Deck"
           /\ \A code \in DOMAIN card_lookup :
                CountOf(StatsCell(StatsRows[i].hermit, StatsRows[i].run_num).val.cards, code)
                  = (IF code \in {SNE, TRH} THEN 1 ELSE 0)
                    + CellCount(StatsRows[i].eth_cards, code)

\* C3: when a row of a player plays an ethereal card and buys nothing, the
\* deck recorded for the player's next row does not hold that card unless
\* the next row plays it again.
C3_EtherealNotCarried ==
  last.op = "calculate_deck_stats" /\ last.arg.val.attr = None /\ DistinctRuns =>
    \A i, j \in DOMAIN StatsRows :
      /\ ConsecutiveRows(i, j)
      /\ StatsRows[i].eth_cards.kind = "Deck"
      /\ StatsRows[i].bought_cards = NoneSource
      => /\ last.out.exc = "none"
         /\ StatsCell(StatsRows[j].hermit, StatsRows[j].run_num).kind = "Deck"
         /\ \A code \in Keys(StatsRows[i].eth_cards.val.cards) :
              CellCount(StatsRows[j].eth_cards, code) = 0 =>
                CountOf(StatsCell(StatsRows[j].hermit, StatsRows[j].run_num).val.cards,
                        code) = 0

\* C4: after any rows, with any ethereal cards played and any cards bought,
\* the deck of every player in the Cur row holds no ethereal card.
C4_CurrentDeckNoEthereal ==
  last.op = "calculate_deck_stats" /\ last.arg.val.attr = None /\ StatsRows # <<>> =>
    /\ last.out.exc = "none"
    /\ \A k \in DOMAIN StatsRows :
         /\ StatsCell(StatsRows[k].hermit, 0).kind = "Deck"
         /\ \A code \in Keys(StatsCell(StatsRows[k].hermit, 0).val.cards) :
              card_lookup[code].cls # "EtherealCard"

\* the copies of a code bought in the rows of a player numbered below run_num
RECURSIVE BoughtBelow(_, _, _, _)
BoughtBelow(rows, player, run_num, code) ==
  IF rows = <<>> THEN 0
  ELSE (IF Head(rows).hermit = player /\ Head(rows).run_num < run_num
        THEN CellCount(Head(rows).bought_cards, code) ELSE 0)
       + BoughtBelow(Tail(rows), player, run_num, code)

\* C25: the runs of a player are applied in the order of the player's run
\* numbers: the deck recorded for a player at run number k holds, of every
\* card that is not ethereal, the starting deck and the purchases of exactly
\* that player's rows numbered below k, whatever the order of the rows.
C25_RunNumberOrder ==
  last.op = "calculate_deck_stats" /\ last.arg.val.attr = None
    /\ StatsRows # <<>> /\ DistinctRuns =>
    /\ last.out.exc = "none"
    /\ \A i \in DOMAIN StatsRows :
         /\ StatsCell(StatsRows[i].hermit, StatsRows[i].run_num).kind = "Deck"
         /\ \A code \in DOMAIN card_lookup :
              card_lookup[code].cls # "EtherealCard" =>
                CountOf(StatsCell(StatsRows[i].hermit, StatsRows[i].run_num).val.cards, code)
                  = (IF code \in {SNE, TRH} THEN 1 ELSE 0)
                    + BoughtBelow(StatsRows, StatsRows[i].hermit, StatsRows[i].run_num, code)

\* the rows of one player in the order they have in the table
OwnRows(player) ==
  LET own(row) == row.hermit = player
  IN  SelectSeq(StatsRows, own)
\* the frame the same call returns for the rows of one player alone
Alone(player) ==
  calculate_deck_stats(OwnRows(player), last.arg.val.attr,
                       last.arg.val.ignore_ethereal_cards, last.arg.val.replace_nan)

\* C30: the decks recorded for a player and the player's deck in the Cur row
\* are those that the player's own rows give alone, in the same order: the
\* rows of other players among them change none of these decks.
C30_PlayersIndependent ==
  last.op = "calculate_deck_stats" /\ StatsRows # <<>> =>
    /\ last.out.exc = "none"
    /\ \A i \in DOMAIN StatsRows :
         /\ Alone(StatsRows[i].hermit).exc = "none"
         /\ \A run_num \in 0..max_run_num_of(OwnRows(StatsRows[i].hermit)).val :
              StatsCell(StatsRows[i].hermit, run_num)
                = Alone(StatsRows[i].hermit).val.cells[1][run_num + 1]

\* C26: deck + other leaves its operands alone: after the addition the left
\* deck has the card counts it had before, and the result is a deck of its own.
C26_AddLeavesOperands ==
  last.op = "__add__" =>
    /\ \A code \in Keys(last.before.cards) \cup Keys(last.out.self.cards) :
         CountOf(last.out.self.cards, code) = CountOf(last.before.cards, code)
    /\ Keys(last.out.self.cards) = Keys(last.before.cards)

(***************************************************************************)
(* Properties of the chart under pointer events (SpecChart) and under      *)
(* calls of the methods of LineInfo (SpecLines).                           *)
(***************************************************************************)
\* C15: in every state that pointer moves and clicks reach, no label is in
\* the hidden set and in the focused set at once.
C15_HiddenNeverFocused == fig.hidden_lines \cap fig.focused_lines = {}

\* C16: after any sequence of pointer moves and clicks at least one label is
\* still visible.
C16_NeverBlank == fig.visible_lines # {}

\* a label has just been hidden, by a call of hide that found it visible
JustHidden(name) ==
  /\ last.op = "hide"
  /\ last.arg.val.name = name
  /\ name \in last.before.visible_lines
\* the call that follows is show on the same label
ThenShown(name) ==
  /\ last'.op = "show"
  /\ last'.arg.val.name = name

Hovered(event, name) ==
  \E i \in DOMAIN event.contains[name] : event.contains[name][i]

\* C18: after on_hover has handled a pointer move over a panel, every visible
\* label is in the focused set if one of its artists in that panel contains
\* the pointer, and in the unfocused set if none does.
C18_HoverFocusesContained ==
  last.op = "on_hover" /\ last.arg.val.inaxes # None =>
    \A name \in fig.visible_lines :
      IF Hovered(last.arg.val, name) THEN name \in fig.focused_lines
      ELSE name \in fig.unfocused_lines

\* C19: a pointer move with the same containment results as the pointer move
\* just before it, in the same panel, changes no focus and asks for no redraw.
C19_HoverIdempotent ==
  [][(/\ last.op = "on_hover"
      /\ last'.op = "on_hover"
      /\ last.arg.val.inaxes # None
      /\ last'.arg.val = last.arg.val)
     => /\ fig'.focused_lines = fig.focused_lines
        /\ fig'.unfocused_lines = fig.unfocused_lines
        /\ last'.out.val = FALSE]_vars

\* C20: a left click with a label unfocused, the unfocused set not being the
\* whole visible set, hides exactly the labels that were unfocused and shows
\* none; a left click with no label unfocused makes every hidden label visible
\* and unfocused and hides none.
C20_LeftClick ==
  last.op = "on_click" /\ last.arg.val.button = LEFT =>
    /\ (last.before.unfocused_lines # {}
        /\ last.before.unfocused_lines # last.before.visible_lines) =>
         /\ fig.hidden_lines \ last.before.hidden_lines = last.before.unfocused_lines
         /\ fig.visible_lines = last.before.visible_lines \ last.before.unfocused_lines
         /\ last.before.hidden_lines \subseteq fig.hidden_lines
    /\ last.before.unfocused_lines = {} =>
         /\ last.before.hidden_lines \subseteq fig.visible_lines \cap fig.unfocused_lines
         /\ fig.hidden_lines = {}
         /\ last.before.visible_lines \subseteq fig.visible_lines

\* a left click has hidden the unfocused labels beside a label hidden before
\* it, and has left a focused one visible
C20_HidUnfocused ==
  /\ last.op = "on_click"
  /\ last.arg.val.button = LEFT
  /\ last.before.unfocused_lines # {}
  /\ last.before.unfocused_lines # last.before.visible_lines
  /\ last.before.hidden_lines # {}
  /\ last.before.unfocused_lines \subseteq fig.hidden_lines
  /\ fig.visible_lines # {}

\* the artists of a label on every panel where it has some are emphasised as
\* focus leaves them
EmphasisedEverywhere(name) ==
  \A ax \in DOMAIN fig.lines_[name] :
    fig.lines_[name][ax] # None =>
      /\ fig.lines_[name][ax][1].zorder = 1
      /\ fig.lines_[name][ax][1].linewidth = "2"
      /\ fig.lines_[name][ax][1].markeredgewidth = "2"
      /\ fig.lines_[name][ax][1].fontweight = "bold"
\* the artists of a label on every panel are at the back, of normal weight and
\* of the width of a line as plotted or as unfocus leaves it
NormalEverywhere(name) ==
  \A ax \in DOMAIN fig.lines_[name] :
    fig.lines_[name][ax] # None =>
      /\ fig.lines_[name][ax][1].zorder = 0
      /\ fig.lines_[name][ax][1].linewidth \in {"1", "1.5"}
      /\ fig.lines_[name][ax][1].markeredgewidth = "1"
      /\ fig.lines_[name][ax][1].fontweight = "normal"

\* C28: after any sequence of pointer moves and clicks, every label in the
\* unfocused set has normal width, weight and draw layer on all panels and
\* every label in the focused set is emphasised on all panels.
C28_EmphasisAgreesWithFocus ==
  /\ \A name \in fig.unfocused_lines : NormalEverywhere(name)
  /\ \A name \in fig.focused_lines : EmphasisedEverywhere(name)

\* C29: after any sequence of focus, unfocus, show and hide calls, every label
\* is in exactly one of the visible set and the hidden set, and every label of
\* the unfocused set is visible.
C29_VisibleOrHidden ==
  /\ fig.visible_lines \cup fig.hidden_lines = DOMAIN fig.lines_
  /\ fig.visible_lines \cap fig.hidden_lines = {}
  /\ fig.unfocused_lines \subseteq fig.visible_lines

\* hide has hidden a label that was visible and unfocused
C29_HidUnfocusedLabel ==
  /\ last.op = "hide"
  /\ last.out.val = TRUE
  /\ last.arg.val.name \in last.before.visible_lines \cap last.before.unfocused_lines
  /\ last.arg.val.name \in fig.hidden_lines
  /\ last.arg.val.name \notin fig.visible_lines \cup fig.unfocused_lines

(***************************************************************************)
(* Properties of the construction of the chart (SpecFigure) and of         *)
(* plot_series (SpecSeries).                                               *)
(***************************************************************************)
\* the player columns of the tables given to the constructor
ColumnsGiven == {ColumnsOf(last.arg.val.deck_data, <<>>)[i] :
                   i \in DOMAIN ColumnsOf(last.arg.val.deck_data, <<>>)}
MissingRunData == "Missing run data for the following players: "
NoColorProvided == "No color provided for the following players: "

\* C21: the constructor fails with the missing-run-data error naming the
\* players whose column has no row in the run table; when all have run data
\* it fails with the no-color error naming the players without an entry in
\* the color mapping; the run-data check comes first.
C21_ConstructorValidation ==
  last.op = "DeckStatsFigure" =>
    /\ ColumnsGiven \ last.arg.val.hermits # {} =>
         /\ last.out.exc = "ValueError"
         /\ last.out.val.message = MissingRunData
         /\ last.out.val.players = ColumnsGiven \ last.arg.val.hermits
         /\ fig = None
    /\ (ColumnsGiven \subseteq last.arg.val.hermits
        /\ ColumnsGiven \ last.arg.val.color_map # {}) =>
         /\ last.out.exc = "ValueError"
         /\ last.out.val.message = NoColorProvided
         /\ last.out.val.players = ColumnsGiven \ last.arg.val.color_map
         /\ fig = None

\* a player without run data and without a colour: the error is the one of
\* the run data
C21_BothMissing ==
  /\ last.op = "DeckStatsFigure"
  /\ Wels \in ColumnsGiven
  /\ Wels \notin last.arg.val.hermits
  /\ Wels \notin last.arg.val.color_map
  /\ last.out.exc = "ValueError"
  /\ last.out.val.message = MissingRunData
  /\ Wels \in last.out.val.players

\* every column of every table has a finite value after the current row
ColumnsPlottable ==
  \A i \in DOMAIN last.arg.val.deck_data :
    \A col \in DOMAIN last.arg.val.deck_data[i][3] :
      FiniteIndex(Tail(last.arg.val.deck_data[i][3][col])) # {}

\* C22: when every player column has run data and an entry in the color
\* mapping given to the constructor, construction succeeds, also for a player
\* without an entry in the built-in palette.
C22_ConstructionSucceeds ==
  (/\ last.op = "DeckStatsFigure"
   /\ ColumnsGiven \subseteq last.arg.val.hermits
   /\ ColumnsGiven \subseteq last.arg.val.color_map
   /\ ColumnsPlottable)
  => /\ last.out.exc = "none"
     /\ fig # None

\* the index values whose value the bridging series keeps
KeptPoints == {idx \in DOMAIN last.out.val.interp : last.out.val.interp[idx]}
\* the index values of the finite cells of the series plotted
PresentPoints == FiniteIndex(last.arg.val.s)
Series_12_45 == <<TRUE, TRUE, FALSE, TRUE, TRUE>>

\* C23: the bridging series keeps a finite point only if a neighbouring run
\* position is missing: an interior point with both neighbours present is
\* removed, the first finite point is removed when its successor is present,
\* the last when its predecessor is present; present at {1,2,4,5} and missing
\* at {3} it keeps {2,4}.
C23_BridgingKeepsGapEnds ==
  last.op = "plot_series" /\ last.out.exc = "none" =>
    /\ \A idx \in PresentPoints :
         idx \in KeptPoints <=>
           IF idx = Lowest(PresentPoints) THEN idx + 1 \notin PresentPoints
           ELSE IF idx = Highest(PresentPoints) THEN idx - 1 \notin PresentPoints
           ELSE idx + 1 \notin PresentPoints \/ idx - 1 \notin PresentPoints
    /\ last.arg.val.s = Series_12_45 => KeptPoints = {2, 4}

\* the dashed line joins two kept points when no finite point lies between
\* them: a dropped point between them is a NaN that breaks the line
DashJoins(a, b) ==
  /\ a \in KeptPoints
  /\ b \in KeptPoints
  /\ a < b
  /\ \A c \in PresentPoints : ~(a < c /\ c < b)

\* C24: the dashed bridging line never joins two finite points separated by
\* two or more consecutive missing run positions: two points it joins lie at
\* most 2 run positions apart.
C24_BridgesSingleGaps ==
  last.op = "plot_series" /\ last.out.exc = "none" =>
    \A a, b \in KeptPoints : DashJoins(a, b) => b - a <= 2

====
